---------------------------- MODULE Spec2Model ----------------------------
(***************************************************************************)
(* Hub delivery orchestration (packages/api-python/app/routers):           *)
(* DeliveryOrder / Route / RouteStop life cycles, the greedy route          *)
(* planner, the OTP service and the CSV importer, modelled over the         *)
(* tables of the store.  Every handler is one atomic action: the handlers   *)
(* run to completion one after the other.                                   *)
(*                                                                         *)
(* Abstractions: ids are positive integers handed out in creation order;   *)
(* timestamps are integer minutes read from the clock `now`; weights and    *)
(* capacities are non-negative integers; postal codes are small integers    *)
(* ordered like the strings they stand for.                                 *)
(***************************************************************************)
EXTENDS Integers, Sequences, FiniteSets, TLC

(* ------------------------------ bounds -------------------------------- *)
MaxTime == 15
MaxTokens == 2
MaxAttempts == 3

MaxRequests == 4

(* ------------------------- program constants -------------------------- *)
\* None / SQL NULL of an id, a timestamp or a number
Null == -1
\* timedelta(minutes=10)
OtpTtl == 10
\* None of a string: a field a request body leaves unset, a cell
\* csv.DictReader did not find in a short row (restval)
NoneStr == "<None>"

VARIABLES
    now,            \* datetime.utcnow(), in minutes
    orders,         \* table delivery_orders: sequence of rows, id = index
    routes,         \* table delivery_routes: route id -> row
    stops,          \* table route_stops: stop id -> row
    attempts,       \* table delivery_attempts: sequence of rows
    vehicles,       \* table hub_vehicles: vehicle id -> row
    drivers,        \* table drivers: driver id -> row
    tokens,         \* table otp_tokens: sequence of rows in created_at order
    imports,        \* table order_imports: sequence of rows, id = index
    routeSeq,       \* number of route ids handed out so far
    stopSeq,        \* number of stop ids handed out so far
    upload,         \* the CSV file of the pending upload request
    last,           \* the last request served: [op, status, arg, ret]
    verifyOk,       \* history: (order, type) pairs for which verify_otp succeeded
    served,         \* number of requests let in under a request budget
    procs           \* requests in flight whose store calls interleave

vars == <<now, orders, routes, stops, attempts, vehicles, drivers, tokens,
          imports, routeSeq, stopSeq, upload, last, verifyOk, served, procs>>

NoArg == [none |-> TRUE]
NoRet == [none |-> TRUE]

Reply(op, status, arg, ret) == [op |-> op, status |-> status, arg |-> arg, ret |-> ret]

\* a step of a specification that sets no budget on the requests
Free(A) == A /\ UNCHANGED <<served, procs>>

\* a step of a specification that lets in MaxRequests requests
Counted(A) == served < MaxRequests /\ served' = served + 1 /\ A /\ UNCHANGED procs

OrderStatuses == {"pending", "assigned", "out_for_delivery", "delivered",
                  "failed", "returned_to_hub", "cancelled"}

OtpTypes == {"delivery", "return"}

\* otp codes a request may carry (generate_otp draws the sent one at random)
Codes == {111111, 222222}

\* minutes by which the clock moves between two requests
TickSteps == {5}

\* A row of delivery_orders with the column defaults of the store.
NewOrder(hub, weight, postal, sdate) ==
    [hub_id |-> hub, source |-> "manual", import_batch_id |-> Null,
     customer_name |-> "name", customer_phone |-> "phone",
     delivery_address |-> "address", product_description |-> "product",
     package_count |-> 1, total_weight_kg |-> weight, is_cod |-> FALSE,
     delivery_postal_code |-> postal, delivery_city |-> Null,
     scheduled_date |-> sdate,
     status |-> "pending", route_id |-> Null, driver_id |-> Null,
     assigned_at |-> Null, out_for_delivery_at |-> Null, delivered_at |-> Null,
     failed_at |-> Null, returned_at |-> Null]

OrderIds == 1..Len(orders)

\* ids a request may name: the rows of the table and one id that matches none
OrderIdArgs == 1..(Len(orders) + 1)

(* ------------------------------- clock -------------------------------- *)
Tick ==
    /\ \E d \in TickSteps :
          /\ now + d <= MaxTime
          /\ now' = now + d
    /\ UNCHANGED <<orders, routes, stops, attempts, vehicles, drivers, tokens,
                   imports, routeSeq, stopSeq, upload, last, verifyOk>>

(* ----------------------------- OtpService ----------------------------- *)
UnverifiedOfOrder(toks, oid, typ) ==
    {i \in 1..Len(toks) : toks[i].order_id = oid /\ ~toks[i].is_verified}

\* .eq("order_id").eq("otp_type").eq("is_verified", False)
UnverifiedTokens(toks, oid, typ) ==
    {i \in 1..Len(toks) : /\ toks[i].order_id = oid
                          /\ toks[i].otp_type = typ
                          /\ ~toks[i].is_verified}

InvalidateAnyType(toks, oid, typ) ==
    [i \in 1..Len(toks) |->
        IF toks[i].order_id = oid THEN [toks[i] EXCEPT !.is_verified = TRUE] ELSE toks[i]]

InvalidateKeepsOld(toks, oid, typ) == toks

\* update({"is_verified": True}) on the unverified tokens of the pair
InvalidateTokens(toks, oid, typ) ==
    [i \in 1..Len(toks) |->
        IF i \in UnverifiedTokens(toks, oid, typ)
        THEN [toks[i] EXCEPT !.is_verified = TRUE]
        ELSE toks[i]]

NewToken(oid, code, typ, expires) ==
    [order_id |-> oid, otp_code |-> code, otp_type |-> typ,
     is_verified |-> FALSE, expires_at |-> expires]

SendOtp(oid, typ, code) ==
    LET arg == [order_id |-> oid, otp_type |-> typ]
    IN  \/ /\ oid \notin OrderIds
           /\ last' = Reply("send_otp", "not_found", arg, NoRet)
           /\ UNCHANGED tokens
        \/ /\ oid \in OrderIds
           /\ Len(tokens) < MaxTokens
           /\ tokens' = Append(InvalidateTokens(tokens, oid, typ),
                               NewToken(oid, code, typ, now + OtpTtl))
           /\ last' = Reply("send_otp", "ok", arg,
                            [success |-> TRUE, otp_code |-> code,
                             expires_at |-> now + OtpTtl])

\* order("created_at", desc=True).limit(1)
LatestUnverified(toks, oid, typ) ==
    CHOOSE i \in UnverifiedTokens(toks, oid, typ) :
        \A j \in UnverifiedTokens(toks, oid, typ) : j <= i

MarkVerifiedLost(toks, i) == toks

\* update({"is_verified": True}).eq("id", token["id"])
MarkVerified(toks, i) == [toks EXCEPT ![i].is_verified = TRUE]

ExpiredNever(expires, t) == FALSE

\* expires_at < utcnow()
Expired(expires, t) == expires < t

VerifyOtp(oid, typ, code) ==
    LET arg == [order_id |-> oid, otp_type |-> typ, otp_code |-> code]
        act == UnverifiedTokens(tokens, oid, typ)
        tok == LatestUnverified(tokens, oid, typ)
    IN  \/ /\ act = {}
           /\ last' = Reply("verify_otp", "no_active_otp", arg, NoRet)
           /\ UNCHANGED <<tokens, verifyOk>>
        \/ /\ act # {}
           /\ tokens[tok].otp_code # code
           /\ last' = Reply("verify_otp", "ok", arg,
                            [success |-> FALSE, message |-> "Invalid OTP", token |-> tok])
           /\ UNCHANGED <<tokens, verifyOk>>
        \/ /\ act # {}
           /\ tokens[tok].otp_code = code
           /\ Expired(tokens[tok].expires_at, now)
           /\ last' = Reply("verify_otp", "ok", arg,
                            [success |-> FALSE, message |-> "OTP has expired", token |-> tok])
           /\ UNCHANGED <<tokens, verifyOk>>
        \/ /\ act # {}
           /\ tokens[tok].otp_code = code
           /\ ~Expired(tokens[tok].expires_at, now)
           /\ tokens' = MarkVerified(tokens, tok)
           /\ verifyOk' = verifyOk \cup {<<oid, typ>>}
           /\ last' = Reply("verify_otp", "ok", arg,
                            [success |-> TRUE, message |-> "OTP verified successfully",
                             token |-> tok])

send_otp ==
    /\ \E oid \in OrderIdArgs, typ \in OtpTypes, code \in Codes : SendOtp(oid, typ, code)
    /\ UNCHANGED <<now, orders, routes, stops, attempts, vehicles, drivers,
                   imports, routeSeq, stopSeq, upload, verifyOk>>

verify_otp ==
    /\ \E oid \in OrderIdArgs, typ \in OtpTypes, code \in Codes : VerifyOtp(oid, typ, code)
    /\ UNCHANGED <<now, orders, routes, stops, attempts, vehicles, drivers,
                   imports, routeSeq, stopSeq, upload>>

\* otp_data.otp_type = "return"; return await send_otp(...)
send_return_otp ==
    /\ \E oid \in OrderIdArgs, code \in Codes : SendOtp(oid, "return", code)
    /\ UNCHANGED <<now, orders, routes, stops, attempts, vehicles, drivers,
                   imports, routeSeq, stopSeq, upload, verifyOk>>

verify_return_otp ==
    /\ \E oid \in OrderIdArgs, code \in Codes : VerifyOtp(oid, "return", code)
    /\ UNCHANGED <<now, orders, routes, stops, attempts, vehicles, drivers,
                   imports, routeSeq, stopSeq, upload>>

(* -------------------------- delivery attempts ------------------------- *)
MaxDrivers == 1

DriverIds == 1..MaxDrivers

\* users that may call a driver endpoint: each driver's user, and one user
\* with the driver role and no row in drivers
UserIds == 1..(MaxDrivers + 1)

\* drivers.select("id").eq("user_id", current_user["id"])
DriverOfUser(uid) == {d \in DOMAIN drivers : drivers[d].user_id = uid}

AttemptStatuses == {"delivered", "failed", "rescheduled"}

NextAttemptNumberOverall(atts, oid) == Len(atts) + 1

\* attempt_number of the latest attempt of the order, plus one
NextAttemptNumber(atts, oid) ==
    LET prev == {atts[i].attempt_number : i \in {j \in 1..Len(atts) : atts[j].order_id = oid}}
    IN  IF prev = {} THEN 1
        ELSE (CHOOSE n \in prev : \A m \in prev : m <= n) + 1

\* the order row after record_attempt's update of delivery_orders
AttemptOrderUpdate(o, st, t) ==
    IF st = "delivered" THEN [o EXCEPT !.status = "delivered", !.delivered_at = t]
    ELSE IF st = "failed" THEN [o EXCEPT !.status = "failed", !.failed_at = t]
    ELSE o

RecordAttempt(uid, oid, sid, st) ==
    LET arg == [user_id |-> uid, order_id |-> oid, route_stop_id |-> sid, status |-> st]
    IN  \/ /\ DriverOfUser(uid) = {}
           /\ last' = Reply("record_attempt", "not_found", arg, NoRet)
           /\ UNCHANGED <<orders, stops, attempts>>
        \/ /\ DriverOfUser(uid) # {}
           /\ Len(attempts) < MaxAttempts
           /\ LET did == CHOOSE d \in DriverOfUser(uid) : TRUE
                  att == [order_id |-> oid, route_stop_id |-> sid, driver_id |-> did,
                          attempt_number |-> NextAttemptNumber(attempts, oid),
                          status |-> st]
              IN  /\ attempts' = Append(attempts, att)
                  /\ orders' = [orders EXCEPT ![oid] = AttemptOrderUpdate(@, st, now)]
                  /\ stops' = IF sid \in DOMAIN stops
                              THEN [stops EXCEPT ![sid].status = st,
                                                 ![sid].actual_departure = now]
                              ELSE stops
                  /\ last' = Reply("record_attempt", "ok", arg, att)

record_attempt ==
    /\ \E uid \in UserIds, oid \in OrderIds, sid \in {Null} \cup DOMAIN stops,
          st \in AttemptStatuses : RecordAttempt(uid, oid, sid, st)
    /\ UNCHANGED <<now, routes, vehicles, drivers, tokens, imports, routeSeq,
                   stopSeq, upload, verifyOk>>

(* ----------------------------- RoutePlanner --------------------------- *)
MaxRoutes == 2

\* vehicle.get("capacity_kg") or 999999
DefaultCapacity == 999999

\* len(route_orders) < 30
MaxStopsPerRoute == 30

RouteIds == DOMAIN routes

StopIds == DOMAIN stops

NewRouteAssigned(hub, vehicle, driver, rdate, nstops, weight) ==
    [hub_id |-> hub, vehicle_id |-> vehicle, driver_id |-> driver,
     route_date |-> rdate, status |-> "assigned", total_stops |-> nstops,
     total_weight_kg |-> weight, start_time |-> Null]

\* a row of delivery_routes
NewRoute(hub, vehicle, driver, rdate, nstops, weight) ==
    [hub_id |-> hub, vehicle_id |-> vehicle, driver_id |-> driver,
     route_date |-> rdate, status |-> "planned", total_stops |-> nstops,
     total_weight_kg |-> weight, start_time |-> Null]

\* a row of route_stops
NewStop(rid, oid, seq) ==
    [route_id |-> rid, order_id |-> oid, sequence |-> seq, status |-> "pending",
     actual_arrival |-> Null, actual_departure |-> Null]

\* the rows of a table in the order the store returns them: by id
RECURSIVE IdList(_)
IdList(S) ==
    IF S = {} THEN <<>>
    ELSE LET m == CHOOSE x \in S : \A y \in S : x <= y
         IN  <<m>> \o IdList(S \ {m})

PendingPoolAnyRoute(hub, rdate) ==
    {o \in OrderIds : /\ orders[o].hub_id = hub
                      /\ orders[o].status = "pending"
                      /\ orders[o].scheduled_date = rdate}

\* eq(hub_id).eq(status, pending).is_(route_id, null).eq(scheduled_date)
PendingPool(hub, rdate) ==
    {o \in OrderIds : /\ orders[o].hub_id = hub
                      /\ orders[o].status = "pending"
                      /\ orders[o].route_id = Null
                      /\ orders[o].scheduled_date = rdate}

\* hub_vehicles of the hub that are active and, unless ids are given, available
EligibleVehicles(hub, vids) ==
    IF vids # {}
    THEN {v \in DOMAIN vehicles : /\ vehicles[v].hub_id = hub
                                  /\ v \in vids
                                  /\ vehicles[v].is_active}
    ELSE {v \in DOMAIN vehicles : /\ vehicles[v].hub_id = hub
                                  /\ vehicles[v].status = "available"
                                  /\ vehicles[v].is_active}

\* (o.get("delivery_postal_code") or "", o.get("delivery_city") or ""):
\* None and "" are the smallest key, 0
SortKey(o) ==
    <<IF orders[o].delivery_postal_code = Null THEN 0 ELSE orders[o].delivery_postal_code,
      IF orders[o].delivery_city = Null THEN 0 ELSE orders[o].delivery_city>>

KeyLess(a, b) == a[1] < b[1] \/ (a[1] = b[1] /\ a[2] < b[2])

\* insert id o behind the ids whose key is not greater (the sort is stable)
RECURSIVE InsertSorted(_, _)
InsertSorted(sorted, o) ==
    IF sorted = <<>> THEN <<o>>
    ELSE IF KeyLess(SortKey(o), SortKey(Head(sorted)))
         THEN <<o>> \o sorted
         ELSE <<Head(sorted)>> \o InsertSorted(Tail(sorted), o)

SortOrdersAsRead(ids, k) == ids

RECURSIVE SortOrders(_, _)
\* remaining_orders.sort(key=...)
SortOrders(ids, k) ==
    IF k = 0 THEN <<>> ELSE InsertSorted(SortOrders(ids, k - 1), ids[k])

\* vehicle.get("capacity_kg") or 999999
CapacityOf(v) ==
    IF vehicles[v].capacity_kg = Null \/ vehicles[v].capacity_kg = 0
    THEN DefaultCapacity
    ELSE vehicles[v].capacity_kg

\* order.get("total_weight_kg") or 0
WeightOf(o) == IF orders[o].total_weight_kg = Null THEN 0 ELSE orders[o].total_weight_kg

\* current_weight + order_weight <= capacity_kg and len(route_orders) < 30
Fits(weight, w, cap, n) == weight + w <= cap /\ n < MaxStopsPerRoute

RECURSIVE FillVehicleDropsRejected(_, _, _, _)
FillVehicleDropsRejected(pool, k, cap, acc) ==
    IF k > Len(pool) THEN acc
    ELSE LET o == pool[k]
         IN  IF Fits(acc.weight, WeightOf(o), cap, Len(acc.taken))
             THEN FillVehicleDropsRejected(pool, k + 1, cap,
                              [acc EXCEPT !.taken = Append(@, o),
                                          !.weight = @ + WeightOf(o)])
             ELSE FillVehicleDropsRejected(pool, k + 1, cap, acc)

RECURSIVE FillVehicleStopsAtMisfit(_, _, _, _)
FillVehicleStopsAtMisfit(pool, k, cap, acc) ==
    IF k > Len(pool) THEN acc
    ELSE LET o == pool[k]
         IN  IF Fits(acc.weight, WeightOf(o), cap, Len(acc.taken))
             THEN FillVehicleStopsAtMisfit(pool, k + 1, cap,
                              [acc EXCEPT !.taken = Append(@, o),
                                          !.weight = @ + WeightOf(o)])
             ELSE [acc EXCEPT !.rest = SubSeq(pool, k, Len(pool))]

RECURSIVE FillVehicle(_, _, _, _)
\* the scan of remaining_orders for one vehicle, from position k on:
\* acc = [taken, weight, rest]
FillVehicle(pool, k, cap, acc) ==
    IF k > Len(pool) THEN acc
    ELSE LET o == pool[k]
         IN  IF Fits(acc.weight, WeightOf(o), cap, Len(acc.taken))
             THEN FillVehicle(pool, k + 1, cap,
                              [acc EXCEPT !.taken = Append(@, o),
                                          !.weight = @ + WeightOf(o)])
             ELSE FillVehicle(pool, k + 1, cap, [acc EXCEPT !.rest = Append(@, o)])

RECURSIVE PlanVehiclesKeepsEmpty(_, _, _, _)
PlanVehiclesKeepsEmpty(vs, k, pool, plan) ==
    IF k > Len(vs) \/ pool = <<>> THEN [loads |-> plan, rest |-> pool]
    ELSE LET f == FillVehicle(pool, 1, CapacityOf(vs[k]),
                              [taken |-> <<>>, weight |-> 0, rest |-> <<>>])
         IN  PlanVehiclesKeepsEmpty(vs, k + 1, f.rest,
                                    Append(plan, [vehicle |-> vs[k], taken |-> f.taken,
                                                  weight |-> f.weight]))

RECURSIVE PlanVehicles(_, _, _, _)
\* for vehicle in vehicles: ... ; [loads, rest] with one load per route to create
PlanVehicles(vs, k, pool, plan) ==
    IF k > Len(vs) \/ pool = <<>> THEN [loads |-> plan, rest |-> pool]
    ELSE LET f == FillVehicle(pool, 1, CapacityOf(vs[k]),
                              [taken |-> <<>>, weight |-> 0, rest |-> <<>>])
         IN  IF f.taken = <<>>
             THEN PlanVehicles(vs, k + 1, f.rest, plan)
             ELSE PlanVehicles(vs, k + 1, f.rest,
                               Append(plan, [vehicle |-> vs[k], taken |-> f.taken,
                                             weight |-> f.weight]))

\* the position of order o in a load, 0 if it is not in it
PosIn(seq, o) == IF \E i \in 1..Len(seq) : seq[i] = o
                 THEN CHOOSE i \in 1..Len(seq) : seq[i] = o ELSE 0

\* the stops created for the loads: stop ids follow the insertion order
RECURSIVE StopsBefore(_, _)
StopsBefore(loads, j) == IF j = 1 THEN 0 ELSE StopsBefore(loads, j - 1) + Len(loads[j - 1].taken)

PlannedStops(loads) ==
    UNION {{[id |-> stopSeq + StopsBefore(loads, j) + i,
             row |-> NewStop(routeSeq + j, loads[j].taken[i], i)] :
               i \in 1..Len(loads[j].taken)} : j \in 1..Len(loads)}

RECURSIVE SumLen(_, _)
SumLen(loads, j) == IF j = 0 THEN 0 ELSE SumLen(loads, j - 1) + Len(loads[j].taken)

AutoPlanRoutes(hub, rdate, vids) ==
    LET arg == [hub_id |-> hub, route_date |-> rdate, vehicle_ids |-> vids]
        pool == IdList(PendingPool(hub, rdate))
        vs == IdList(EligibleVehicles(hub, vids))
    IN  \/ /\ pool = <<>>
           /\ last' = Reply("auto_plan_routes", "ok", arg,
                            [routes_created |-> 0, total_orders_assigned |-> 0,
                             unassigned_orders |-> 0, routes |-> {}])
           /\ UNCHANGED <<orders, routes, stops, routeSeq, stopSeq>>
        \/ /\ pool # <<>>
           /\ vs = <<>>
           /\ last' = Reply("auto_plan_routes", "bad_request", arg, NoRet)
           /\ UNCHANGED <<orders, routes, stops, routeSeq, stopSeq>>
        \/ /\ pool # <<>>
           /\ vs # <<>>
           /\ \E p \in {PlanVehicles(vs, 1, SortOrders(pool, Len(pool)), <<>>)} :
                 LET n == Len(p.loads)
                     new == PlannedStops(p.loads)
                     RouteOf(o) == CHOOSE j \in 1..n : PosIn(p.loads[j].taken, o) # 0
                     placed == {o \in OrderIds : \E j \in 1..n : PosIn(p.loads[j].taken, o) # 0}
                 IN  /\ routeSeq + n <= MaxRoutes
                     /\ routes' = [r \in RouteIds \cup (routeSeq + 1)..(routeSeq + n) |->
                                     IF r \in RouteIds THEN routes[r]
                                     ELSE NewRoute(hub, p.loads[r - routeSeq].vehicle, Null,
                                                   rdate, Len(p.loads[r - routeSeq].taken),
                                                   p.loads[r - routeSeq].weight)]
                     /\ stops' = [s \in StopIds \cup {x.id : x \in new} |->
                                     IF s \in StopIds THEN stops[s]
                                     ELSE (CHOOSE x \in new : x.id = s).row]
                     /\ orders' = [o \in OrderIds |->
                                     IF o \in placed
                                     THEN [orders[o] EXCEPT !.route_id = routeSeq + RouteOf(o)]
                                     ELSE orders[o]]
                     /\ routeSeq' = routeSeq + n
                     /\ stopSeq' = stopSeq + SumLen(p.loads, n)
                     /\ last' = Reply("auto_plan_routes", "ok", arg,
                                      [routes_created |-> n,
                                       total_orders_assigned |-> SumLen(p.loads, n),
                                       unassigned_orders |-> Len(p.rest),
                                       routes |-> (routeSeq + 1)..(routeSeq + n)])

\* vehicle_ids of a request: none given, or a set of ids
VehicleIdArgs == SUBSET (DOMAIN vehicles)

auto_plan_routes ==
    /\ \E hub \in {1}, rdate \in {1}, vids \in VehicleIdArgs : AutoPlanRoutes(hub, rdate, vids)
    /\ UNCHANGED <<now, attempts, vehicles, drivers, tokens, imports, upload, verifyOk>>

(* ------------------------------ route stops --------------------------- *)
StopIdArgs == 1..(stopSeq + 1)

ArriveAtStop(sid) ==
    LET arg == [stop_id |-> sid]
    IN  \/ /\ sid \notin StopIds
           /\ last' = Reply("arrive_at_stop", "not_found", arg, NoRet)
           /\ UNCHANGED stops
        \/ /\ sid \in StopIds
           /\ stops' = [stops EXCEPT ![sid].status = "arrived",
                                     ![sid].actual_arrival = now]
           /\ last' = Reply("arrive_at_stop", "ok", arg, NoRet)

arrive_at_stop ==
    /\ \E sid \in StopIdArgs : ArriveAtStop(sid)
    /\ UNCHANGED <<now, orders, routes, attempts, vehicles, drivers, tokens, imports,
                   routeSeq, stopSeq, upload, verifyOk>>

\* status_value: str = "delivered", a free string
StatusValues == {"delivered", "failed", "arrived", "pending"}

CompleteStop(sid, value) ==
    LET arg == [stop_id |-> sid, status_value |-> value]
    IN  \/ /\ sid \notin StopIds
           /\ last' = Reply("complete_stop", "not_found", arg, NoRet)
           /\ UNCHANGED stops
        \/ /\ sid \in StopIds
           /\ stops' = [stops EXCEPT ![sid].status = value,
                                     ![sid].actual_departure = now]
           /\ last' = Reply("complete_stop", "ok", arg, NoRet)

complete_stop ==
    /\ \E sid \in StopIdArgs, value \in StatusValues : CompleteStop(sid, value)
    /\ UNCHANGED <<now, orders, routes, attempts, vehicles, drivers, tokens, imports,
                   routeSeq, stopSeq, upload, verifyOk>>

(* ---------------------------- OrderLifecycle -------------------------- *)
MaxOrders == 2

\* create_order: insert the order with the column defaults
CreateOrder(hub, weight, postal, sdate) ==
    /\ Len(orders) < MaxOrders
    /\ orders' = Append(orders, NewOrder(hub, weight, postal, sdate))
    /\ last' = Reply("create_order", "created",
                     [hub_id |-> hub, total_weight_kg |-> weight], [id |-> Len(orders) + 1])

create_order ==
    /\ \E hub \in {1}, weight \in {Null, 3} : CreateOrder(hub, weight, Null, 1)
    /\ UNCHANGED <<now, routes, stops, attempts, vehicles, drivers, tokens, imports,
                   routeSeq, stopSeq, upload, verifyOk>>

\* the status of an update_order body: a status, or NoneStr when the body sets
\* no field
StatusPatches == OrderStatuses \cup {NoneStr}

UpdateOrder(oid, st) ==
    LET arg == [order_id |-> oid, status |-> st]
    IN  \/ /\ st = NoneStr
           /\ last' = Reply("update_order", "bad_request", arg, NoRet)
           /\ UNCHANGED orders
        \/ /\ st # NoneStr
           /\ oid \notin OrderIds
           /\ last' = Reply("update_order", "not_found", arg, NoRet)
           /\ UNCHANGED orders
        \/ /\ st # NoneStr
           /\ oid \in OrderIds
           /\ orders' = [orders EXCEPT ![oid].status = st]
           /\ last' = Reply("update_order", "ok", arg, NoRet)

update_order ==
    /\ \E oid \in OrderIdArgs, st \in StatusPatches : UpdateOrder(oid, st)
    /\ UNCHANGED <<now, routes, stops, attempts, vehicles, drivers, tokens, imports,
                   routeSeq, stopSeq, upload, verifyOk>>

CancelRefusedDeliveredOnly(st) == st = "delivered"

\* order.data["status"] in ("delivered", "cancelled")
CancelRefused(st) == st \in {"delivered", "cancelled"}

CancelOrder(oid) ==
    LET arg == [order_id |-> oid]
    IN  \/ /\ oid \notin OrderIds
           /\ last' = Reply("cancel_order", "not_found", arg, NoRet)
           /\ UNCHANGED orders
        \/ /\ oid \in OrderIds
           /\ CancelRefused(orders[oid].status)
           /\ last' = Reply("cancel_order", "bad_request", arg, NoRet)
           /\ UNCHANGED orders
        \/ /\ oid \in OrderIds
           /\ ~CancelRefused(orders[oid].status)
           /\ orders' = [orders EXCEPT ![oid].status = "cancelled"]
           /\ last' = Reply("cancel_order", "ok", arg, NoRet)

cancel_order ==
    /\ \E oid \in OrderIdArgs : CancelOrder(oid)
    /\ UNCHANGED <<now, routes, stops, attempts, vehicles, drivers, tokens, imports,
                   routeSeq, stopSeq, upload, verifyOk>>

ReturnToHub(oid) ==
    LET arg == [order_id |-> oid]
    IN  \/ /\ oid \notin OrderIds
           /\ last' = Reply("return_to_hub", "not_found", arg, NoRet)
           /\ UNCHANGED orders
        \/ /\ oid \in OrderIds
           /\ orders' = [orders EXCEPT ![oid].status = "returned_to_hub",
                                       ![oid].returned_at = now]
           /\ last' = Reply("return_to_hub", "ok", arg, NoRet)

return_to_hub ==
    /\ \E oid \in OrderIdArgs : ReturnToHub(oid)
    /\ UNCHANGED <<now, routes, stops, attempts, vehicles, drivers, tokens, imports,
                   routeSeq, stopSeq, upload, verifyOk>>

(* ---------------------------- RouteLifecycle -------------------------- *)
\* the order_ids a create_route body may carry (List[str]): lists of up to two
\* orders, an order listed twice included
OrderIdLists ==
    {<<>>} \cup {<<o>> : o \in OrderIds}
           \cup {<<o, q>> : o \in OrderIds, q \in OrderIds}

RouteIdArgs == 1..(routeSeq + 1)

CreateRouteOrderUpdateNoRoute(o, rid, driver, t) ==
    [o EXCEPT !.driver_id = driver,
              !.status = IF driver # Null THEN "assigned" ELSE "pending",
              !.assigned_at = IF driver # Null THEN t ELSE Null]

\* the order row after create_route's update of delivery_orders
CreateRouteOrderUpdate(o, rid, driver, t) ==
    [o EXCEPT !.route_id = rid, !.driver_id = driver,
              !.status = IF driver # Null THEN "assigned" ELSE "pending",
              !.assigned_at = IF driver # Null THEN t ELSE Null]

CreateRoute(hub, vehicle, driver, rdate, oids) ==
    LET rid == routeSeq + 1
        arg == [hub_id |-> hub, vehicle_id |-> vehicle, driver_id |-> driver,
                order_ids |-> oids]
        listed == {oids[i] : i \in 1..Len(oids)}
    IN  /\ routeSeq < MaxRoutes
        /\ routeSeq' = rid
        /\ routes' = [r \in RouteIds \cup {rid} |->
                        IF r = rid
                        THEN NewRoute(hub, vehicle, driver, rdate, Len(oids), Null)
                        ELSE routes[r]]
        /\ stops' = [s \in StopIds \cup (stopSeq + 1)..(stopSeq + Len(oids)) |->
                        IF s \in StopIds THEN stops[s]
                        ELSE NewStop(rid, oids[s - stopSeq], s - stopSeq)]
        /\ stopSeq' = stopSeq + Len(oids)
        /\ orders' = [o \in OrderIds |->
                        IF o \in listed
                        THEN CreateRouteOrderUpdate(orders[o], rid, driver, now)
                        ELSE orders[o]]
        /\ last' = Reply("create_route", "created", arg, [id |-> rid])

create_route ==
    /\ \E hub \in {1}, vehicle \in {Null} \cup DOMAIN vehicles,
          driver \in {Null} \cup DriverIds, oids \in OrderIdLists :
            CreateRoute(hub, vehicle, driver, 1, oids)
    /\ UNCHANGED <<now, attempts, vehicles, drivers, tokens, imports, upload, verifyOk>>

RouteStatuses == {"planned", "assigned", "in_progress", "completed", "cancelled"}

\* route_data.model_dump(exclude_unset=True): the fields the body sets, among
\* status and driver_id
RoutePatches ==
    {sp @@ dp : sp \in {<<>>} \cup {[status |-> st] : st \in RouteStatuses},
                dp \in {<<>>} \cup {[driver_id |-> d] : d \in {Null} \cup DriverIds}}

\* delivery_routes.update(update_data)
PatchedRoute(route, patch) ==
    [f \in DOMAIN route |-> IF f \in DOMAIN patch THEN patch[f] ELSE route[f]]

UpdateRoute(rid, patch) ==
    LET arg == [route_id |-> rid, update_data |-> patch]
    IN  \/ /\ DOMAIN patch = {}
           /\ last' = Reply("update_route", "bad_request", arg, NoRet)
           /\ UNCHANGED routes
        \/ /\ DOMAIN patch # {}
           /\ rid \notin RouteIds
           /\ last' = Reply("update_route", "not_found", arg, NoRet)
           /\ UNCHANGED routes
        \/ /\ DOMAIN patch # {}
           /\ rid \in RouteIds
           /\ routes' = [routes EXCEPT ![rid] = PatchedRoute(@, patch)]
           /\ last' = Reply("update_route", "ok", arg, NoRet)

update_route ==
    /\ \E rid \in RouteIdArgs, patch \in RoutePatches : UpdateRoute(rid, patch)
    /\ UNCHANGED <<now, orders, stops, attempts, vehicles, drivers, tokens, imports,
                   routeSeq, stopSeq, upload, verifyOk>>

UnassignedKeepsDriver(o) ==
    [o EXCEPT !.route_id = Null, !.status = "pending", !.assigned_at = Null]

\* the order row after delete_route's update of delivery_orders
Unassigned(o) ==
    [o EXCEPT !.route_id = Null, !.driver_id = Null, !.status = "pending",
              !.assigned_at = Null]

DeleteRoute(rid) ==
    /\ orders' = [o \in OrderIds |->
                    IF orders[o].route_id = rid THEN Unassigned(orders[o]) ELSE orders[o]]
    /\ stops' = [s \in {x \in StopIds : stops[x].route_id # rid} |-> stops[s]]
    /\ routes' = [r \in RouteIds \ {rid} |-> routes[r]]
    /\ last' = Reply("delete_route", "ok", [route_id |-> rid], NoRet)

delete_route ==
    /\ \E rid \in RouteIdArgs : DeleteRoute(rid)
    /\ UNCHANGED <<now, attempts, vehicles, drivers, tokens, imports, routeSeq, stopSeq,
                   upload, verifyOk>>

AssignOrderUpdateKeepsStatus(o, driver, t) ==
    [o EXCEPT !.driver_id = driver, !.assigned_at = t]

\* the order row after assign_route's update of delivery_orders
AssignOrderUpdate(o, driver, t) ==
    [o EXCEPT !.driver_id = driver, !.status = "assigned", !.assigned_at = t]

AssignRoute(rid, driver, vehicle) ==
    LET arg == [route_id |-> rid, driver_id |-> driver, vehicle_id |-> vehicle]
    IN  \/ /\ rid \notin RouteIds
           /\ last' = Reply("assign_route", "not_found", arg, NoRet)
           /\ UNCHANGED <<orders, routes, vehicles>>
        \/ /\ rid \in RouteIds
           /\ routes' = [routes EXCEPT ![rid].driver_id = driver,
                                       ![rid].vehicle_id = vehicle,
                                       ![rid].status = "assigned"]
           /\ orders' = [o \in OrderIds |->
                           IF orders[o].route_id = rid
                           THEN AssignOrderUpdate(orders[o], driver, now)
                           ELSE orders[o]]
           /\ vehicles' = [vehicles EXCEPT ![vehicle].status = "on_route",
                                           ![vehicle].assigned_driver_id = driver]
           /\ last' = Reply("assign_route", "ok", arg, NoRet)

assign_route ==
    /\ \E rid \in RouteIdArgs, driver \in DriverIds, vehicle \in DOMAIN vehicles :
          AssignRoute(rid, driver, vehicle)
    /\ UNCHANGED <<now, stops, attempts, drivers, tokens, imports, routeSeq, stopSeq,
                   upload, verifyOk>>

DispatchBlockedDriverOnly(route) == route.driver_id = Null

\* not route.data.get("driver_id") or not route.data.get("vehicle_id")
DispatchBlocked(route) == route.driver_id = Null \/ route.vehicle_id = Null

DispatchOrderUpdateNoStamp(o, t) == [o EXCEPT !.status = "out_for_delivery"]

\* the order row after dispatch_route's update of delivery_orders
DispatchOrderUpdate(o, t) ==
    [o EXCEPT !.status = "out_for_delivery", !.out_for_delivery_at = t]

DispatchRoute(rid) ==
    LET arg == [route_id |-> rid]
    IN  \/ /\ rid \notin RouteIds
           /\ last' = Reply("dispatch_route", "not_found", arg, NoRet)
           /\ UNCHANGED <<orders, routes, drivers>>
        \/ /\ rid \in RouteIds
           /\ DispatchBlocked(routes[rid])
           /\ last' = Reply("dispatch_route", "bad_request", arg, NoRet)
           /\ UNCHANGED <<orders, routes, drivers>>
        \/ /\ rid \in RouteIds
           /\ ~DispatchBlocked(routes[rid])
           /\ routes' = [routes EXCEPT ![rid].status = "in_progress",
                                       ![rid].start_time = now]
           /\ orders' = [o \in OrderIds |->
                           IF orders[o].route_id = rid
                           THEN DispatchOrderUpdate(orders[o], now)
                           ELSE orders[o]]
           /\ drivers' = [d \in DOMAIN drivers |->
                            IF d = routes[rid].driver_id
                            THEN [drivers[d] EXCEPT !.status = "on_delivery"]
                            ELSE drivers[d]]
           /\ last' = Reply("dispatch_route", "ok", arg, NoRet)

dispatch_route ==
    /\ \E rid \in RouteIdArgs : DispatchRoute(rid)
    /\ UNCHANGED <<now, stops, attempts, vehicles, tokens, imports, routeSeq, stopSeq,
                   upload, verifyOk>>

(* ---------------------------- initial rows ---------------------------- *)
NoUpload == [is_csv |-> FALSE, header |-> <<>>, rows |-> <<"none">>]

InitStart == [op |-> "init", status |-> "ok", arg |-> NoArg, ret |-> NoRet]

InitDrivers == [d \in DriverIds |-> [user_id |-> d, status |-> "available"]]

(* --------------------------- ImportIngester --------------------------- *)
MaxRows == 2

\* k.lower().strip() of a column name
LowerStrip(k) ==
    CASE k = "Name" -> "name"
      [] k = " Mobile " -> "mobile"
      [] k = "ADDRESS" -> "address"
      [] k = "Item" -> "item"
      [] k = "Qty" -> "qty"
      [] k = "Weight " -> "weight"
      [] OTHER -> k

\* value.strip() of a cell
Strip(v) ==
    CASE v = " " -> ""
      [] v = " Asha " -> "Asha"
      [] v = " 3 " -> "3"
      [] OTHER -> v

\* int(value): [ok, val]
IntOf(v) ==
    CASE v = "12" -> [ok |-> TRUE, val |-> 12]
      [] v = "3" -> [ok |-> TRUE, val |-> 3]
      [] OTHER -> [ok |-> FALSE, val |-> Null]

\* float(value): [ok, val]
FloatOf(v) ==
    CASE v = "12" -> [ok |-> TRUE, val |-> 12]
      [] v = "3" -> [ok |-> TRUE, val |-> 3]
      [] v = "2.0" -> [ok |-> TRUE, val |-> 2]
      [] OTHER -> [ok |-> FALSE, val |-> Null]

\* value.lower() in ("true", "yes", "1", "cod")
CodOf(v) == v \in {"true", "True", "yes", "YES", "1", "cod", "COD"}

RequiredFields == <<"customer_name", "customer_phone", "delivery_address",
                    "product_description">>

\* field_map
RequiredAliases(f) ==
    CASE f = "customer_name" ->
           <<"customer_name", "customer name", "name", "recipient_name", "recipient name">>
      [] f = "customer_phone" ->
           <<"customer_phone", "customer phone", "phone", "mobile", "contact">>
      [] f = "delivery_address" ->
           <<"delivery_address", "delivery address", "address", "drop_address", "drop address">>
      [] f = "product_description" ->
           <<"product_description", "product description", "product", "item", "items",
             "description">>

\* the fields of optional_map that are coerced or kept in the model's order
\* row, in the order of the map
OptionalFields == <<"delivery_postal_code", "package_count", "total_weight_kg",
                    "is_cod", "cod_amount">>

\* optional_map
OptionalAliases(f) ==
    CASE f = "delivery_postal_code" -> <<"delivery_postal_code", "postal_code", "pincode", "zip">>
      [] f = "package_count" -> <<"package_count", "packages", "qty", "quantity">>
      [] f = "total_weight_kg" -> <<"total_weight_kg", "weight", "weight_kg">>
      [] f = "is_cod" -> <<"is_cod", "cod", "payment_mode">>
      [] f = "cod_amount" -> <<"cod_amount", "cod_value">>

IntFields == {"package_count"}

FloatFields == {"total_weight_kg", "total_volume_cft", "cod_amount", "declared_value"}

\* a parsed row: the cells under the header's columns, and whether the line
\* held more cells than the header
HasNoneKey(row) == row.surplus

\* row_lower: the cell of the last column whose lowered name is n
RowLowerKeys(header) == {LowerStrip(header[j]) : j \in 1..Len(header)}

RowLower(header, row, n) ==
    LET js == {j \in 1..Len(header) : LowerStrip(header[j]) = n}
    IN  row.cells[CHOOSE j \in js : \A k \in js : k <= j]

RECURSIVE FirstAlias(_, _, _)
\* the first alias that is a key of row_lower, from position a on; 0 if none
FirstAlias(header, aliases, a) ==
    IF a > Len(aliases) THEN 0
    ELSE IF aliases[a] \in RowLowerKeys(header) THEN a
    ELSE FirstAlias(header, aliases, a + 1)

\* find_field, for a row without the None key
FindField(header, row, aliases) ==
    LET a == FirstAlias(header, aliases, 1)
    IN  IF a = 0 THEN NoneStr ELSE RowLower(header, row, aliases[a])

\* `not value`
Falsy(v) == v = NoneStr \/ v = ""

RECURSIVE FirstMissing(_, _, _)
\* the first required field whose value is falsy, from position k on; 0 if none
FirstMissing(header, row, k) ==
    IF k > Len(RequiredFields) THEN 0
    ELSE IF Falsy(FindField(header, row, RequiredAliases(RequiredFields[k]))) THEN k
    ELSE FirstMissing(header, row, k + 1)

\* the optional fields that are present with a non-blank value
PresentOptional(header, row) ==
    {k \in 1..Len(OptionalFields) :
        LET v == FindField(header, row, OptionalAliases(OptionalFields[k]))
        IN  ~Falsy(v) /\ Strip(v) # ""}

OptionalValue(header, row, f) == Strip(FindField(header, row, OptionalAliases(f)))

\* the optional fields whose coercion raises ValueError
BadOptional(header, row) ==
    {k \in PresentOptional(header, row) :
        LET f == OptionalFields[k]
            v == OptionalValue(header, row, f)
        IN  \/ f \in IntFields /\ ~IntOf(v).ok
            \/ f \in FloatFields /\ ~FloatOf(v).ok}

\* order_data of a row that raises nothing
OrderData(hub, batch, header, row) ==
    LET req(f) == Strip(FindField(header, row, RequiredAliases(f)))
        has(f) == \E k \in PresentOptional(header, row) : OptionalFields[k] = f
        opt(f) == OptionalValue(header, row, f)
        base == NewOrder(hub, Null, Null, Null)
    IN  [base EXCEPT
           !.source = "csv",
           !.import_batch_id = batch,
           !.customer_name = req("customer_name"),
           !.customer_phone = req("customer_phone"),
           !.delivery_address = req("delivery_address"),
           !.product_description = req("product_description"),
           !.package_count = IF has("package_count") THEN IntOf(opt("package_count")).val ELSE @,
           !.total_weight_kg = IF has("total_weight_kg")
                               THEN FloatOf(opt("total_weight_kg")).val ELSE @,
           !.is_cod = IF has("is_cod") THEN CodOf(opt("is_cod")) ELSE @]

\* the body of the try block for one row: [ok, order, error]
ImportRow(hub, batch, header, row) ==
    IF HasNoneKey(row)
    THEN [ok |-> FALSE, order |-> NoRet,
          error |-> "'NoneType' object has no attribute 'lower'"]
    ELSE IF FirstMissing(header, row, 1) # 0
    THEN [ok |-> FALSE, order |-> NoRet,
          error |-> RequiredFields[FirstMissing(header, row, 1)]]
    ELSE IF BadOptional(header, row) # {}
    THEN [ok |-> FALSE, order |-> NoRet, error |-> "invalid literal"]
    ELSE [ok |-> TRUE, order |-> OrderData(hub, batch, header, row), error |-> ""]

FailureLoggedOnly(acc, i, err) ==
    [acc EXCEPT !.errors = Append(@, [row |-> i, error |-> err])]

\* except Exception as e: failed += 1; errors.append(...)
CountFailure(acc, i, err) ==
    [acc EXCEPT !.failed = @ + 1,
                !.errors = Append(@, [row |-> i, error |-> err])]

\* insert(order_data); processed += 1
CountSuccess(acc, order) ==
    [acc EXCEPT !.processed = @ + 1, !.orders = Append(@, order)]

RECURSIVE ImportRowsUntilFailure(_, _, _, _, _, _)
ImportRowsUntilFailure(hub, batch, header, rows, i, acc) ==
    IF i > Len(rows) THEN acc
    ELSE LET r == ImportRow(hub, batch, header, rows[i])
         IN  IF r.ok
             THEN ImportRowsUntilFailure(hub, batch, header, rows, i + 1,
                                         CountSuccess(acc, r.order))
             ELSE CountFailure(acc, i, r.error)

RECURSIVE ImportRows(_, _, _, _, _, _)
\* for i, row in enumerate(rows, 1): try ... except ...
ImportRows(hub, batch, header, rows, i, acc) ==
    IF i > Len(rows) THEN acc
    ELSE LET r == ImportRow(hub, batch, header, rows[i])
         IN  ImportRows(hub, batch, header, rows, i + 1,
                        IF r.ok THEN CountSuccess(acc, r.order)
                        ELSE CountFailure(acc, i, r.error))

PreviewAll(errors) == errors

\* errors[:20]
ErrorPreview == 20

Preview(errors) == SubSeq(errors, 1, IF Len(errors) < ErrorPreview THEN Len(errors)
                                     ELSE ErrorPreview)

BatchStatus(processed, failed) ==
    IF failed = 0 THEN "completed"
    ELSE IF processed > 0 THEN "completed" ELSE "failed"

UploadCsv(hub, file) ==
    \/ /\ ~file.is_csv
       /\ last' = Reply("upload_csv", "bad_request", file, NoRet)
       /\ UNCHANGED <<orders, imports>>
    \/ /\ file.is_csv
       /\ \E batch \in {Len(imports) + 1} :
          \E acc \in {ImportRows(hub, batch, file.header, file.rows, 1,
                                 [processed |-> 0, failed |-> 0, errors |-> <<>>,
                                  orders |-> <<>>])} :
              /\ orders' = orders \o acc.orders
              /\ imports' = Append(imports,
                    [hub_id |-> hub, source |-> "csv",
                     total_records |-> Len(file.rows),
                     processed |-> acc.processed, failed |-> acc.failed,
                     error_log |-> IF acc.errors = <<>> THEN Null ELSE acc.errors,
                     status |-> BatchStatus(acc.processed, acc.failed)])
              /\ last' = Reply("upload_csv", "ok", file,
                    [import_id |-> batch, total_records |-> Len(file.rows),
                     processed |-> acc.processed, failed |-> acc.failed,
                     errors |-> Preview(acc.errors)])

upload_csv ==
    /\ upload # NoUpload
    /\ UploadCsv(1, upload)
    /\ upload' = NoUpload
    /\ UNCHANGED <<now, routes, stops, attempts, vehicles, drivers, tokens,
                   routeSeq, stopSeq, verifyOk>>

\* the header rows of the uploaded files
Headers ==
    {<<"customer_name", "customer_phone", "delivery_address", "product_description",
       "package_count", "total_weight_kg">>,
     <<"Name", " Mobile ", "ADDRESS", "Item", "Qty", "Weight ">>,
     <<"Name", "ADDRESS", "Item", "Qty", "name", "address">>}

\* a line with every cell filled in
FullCells == <<" Asha ", "98450", "12 MG Road", "Book", "3", "12">>

\* other contents of a cell, by column
OtherCells(j) == IF j <= 4 THEN {"", " "}
                 ELSE IF j = 5 THEN {"", "abc", "2.0", " 3 "}
                 ELSE {"", "abc", "2.0"}

\* the lines of a file: the full line, the full line with one cell changed,
\* the full line cut short after k cells (the rest is None), and a line with
\* a surplus cell
Lines ==
    {[cells |-> FullCells, surplus |-> FALSE], [cells |-> FullCells, surplus |-> TRUE]}
    \cup UNION {{[cells |-> [FullCells EXCEPT ![j] = v], surplus |-> FALSE] :
                    v \in OtherCells(j)} : j \in 1..Len(FullCells)}
    \cup {[cells |-> [j \in 1..Len(FullCells) |->
                         IF j <= k THEN FullCells[j] ELSE NoneStr],
           surplus |-> FALSE] : k \in 1..(Len(FullCells) - 1)}

RowLists == UNION {[1..n -> Lines] : n \in 0..MaxRows}

Uploads ==
    {[is_csv |-> TRUE, header |-> h, rows |-> rs] : h \in Headers, rs \in RowLists}
    \cup {[is_csv |-> FALSE, header |-> <<>>, rows |-> <<>>]}

InitCsv ==
    /\ now = 0
    /\ orders = <<>>
    /\ routes = <<>>
    /\ stops = <<>>
    /\ attempts = <<>>
    /\ vehicles = <<>>
    /\ drivers = InitDrivers
    /\ tokens = <<>>
    /\ imports = <<>>
    /\ routeSeq = 0
    /\ stopSeq = 0
    /\ upload \in Uploads
    /\ last = InitStart
    /\ verifyOk = {}
    /\ served = 0
    /\ procs = <<>>

NextCsv == Free(upload_csv)

SpecCsv == InitCsv /\ [][NextCsv]_vars

\* long files: a few lines repeated in turn, so that more rows fail than the
\* response previews
MaxLongRows == 27

LinePatterns ==
    LET good == [cells |-> FullCells, surplus |-> FALSE]
        blank == [cells |-> [FullCells EXCEPT ![1] = ""], surplus |-> FALSE]
        extra == [cells |-> FullCells, surplus |-> TRUE]
    IN  {<<blank>>, <<good, blank>>, <<blank, extra, blank, blank, good>>, <<blank, extra>>}

LongUploads ==
    {[is_csv |-> TRUE, header |-> h,
      rows |-> [i \in 1..n |-> pat[((i - 1) % Len(pat)) + 1]]] :
        h \in Headers, n \in 0..MaxLongRows, pat \in LinePatterns}

InitCsvLong ==
    /\ now = 0
    /\ orders = <<>>
    /\ routes = <<>>
    /\ stops = <<>>
    /\ attempts = <<>>
    /\ vehicles = <<>>
    /\ drivers = InitDrivers
    /\ tokens = <<>>
    /\ imports = <<>>
    /\ routeSeq = 0
    /\ stopSeq = 0
    /\ upload \in LongUploads
    /\ last = InitStart
    /\ verifyOk = {}
    /\ served = 0
    /\ procs = <<>>

SpecCsvLong == InitCsvLong /\ [][NextCsv]_vars

(* ------------------------- planner specification ---------------------- *)
MaxPlanOrders == 31

MaxVehicles == 2

\* pool sizes: the small pools, and the pools around the stop limit
PlanSizes == 0..3 \cup {n \in 1..MaxPlanOrders : n >= MaxStopsPerRoute - 1}

\* total_weight_kg of the orders of a pool, repeated along the pool
WeightPatterns == {<<Null>>, <<2, 3, 4>>, <<4, 0, 1>>}

\* delivery_postal_code of the orders of a pool, repeated along the pool
PostalPatterns == {<<1>>, <<2, Null, 1>>}

\* hub_id of the orders of a pool, repeated along the pool
HubPatterns == {<<1, 1, 1, 2>>}

Cyclic(pat, i) == pat[((i - 1) % Len(pat)) + 1]

PlanOrders(n, wp, pp, hp) ==
    [i \in 1..n |-> NewOrder(Cyclic(hp, i), Cyclic(wp, i), Cyclic(pp, i), 1)]

\* a row of hub_vehicles
NewVehicle(hub, cap, status, active) ==
    [hub_id |-> hub, capacity_kg |-> cap, status |-> status,
     assigned_driver_id |-> Null, is_active |-> active]

\* the rows of hub_vehicles of a hub's fleet, repeated along the table
FleetPatterns ==
    {<<NewVehicle(1, 5, "available", TRUE), NewVehicle(1, 5, "available", TRUE)>>,
     <<NewVehicle(1, 0, "available", TRUE), NewVehicle(1, 5, "available", TRUE)>>,
     <<NewVehicle(1, Null, "available", TRUE), NewVehicle(1, 7, "on_route", TRUE)>>,
     <<NewVehicle(1, 1, "available", TRUE), NewVehicle(1, 5, "available", TRUE)>>,
     <<NewVehicle(1, 7, "on_route", TRUE), NewVehicle(2, 5, "available", TRUE),
       NewVehicle(1, 5, "available", FALSE)>>}

VehicleTables ==
    {[i \in 1..n |-> Cyclic(fp, i)] : n \in 0..MaxVehicles, fp \in FleetPatterns}

InitPlan ==
    /\ now = 0
    /\ \E n \in PlanSizes, wp \in WeightPatterns, pp \in PostalPatterns, hp \in HubPatterns :
          orders = PlanOrders(n, wp, pp, hp)
    /\ routes = <<>>
    /\ stops = <<>>
    /\ attempts = <<>>
    /\ vehicles \in VehicleTables
    /\ drivers = InitDrivers
    /\ tokens = <<>>
    /\ imports = <<>>
    /\ routeSeq = 0
    /\ stopSeq = 0
    /\ upload = NoUpload
    /\ last = InitStart
    /\ verifyOk = {}
    /\ served = 0
    /\ procs = <<>>

NextPlan == Free(auto_plan_routes)

SpecPlan == InitPlan /\ [][NextPlan]_vars

(* ---------------------------- specifications -------------------------- *)

\* OTP service and attempt recording over one order created by create_order
InitOtp ==
    /\ now = 0
    /\ orders = <<NewOrder(1, Null, Null, Null)>>
    /\ routes = <<>>
    /\ stops = <<>>
    /\ attempts = <<>>
    /\ vehicles = <<>>
    /\ drivers = InitDrivers
    /\ tokens = <<>>
    /\ imports = <<>>
    /\ routeSeq = 0
    /\ stopSeq = 0
    /\ upload = NoUpload
    /\ last = InitStart
    /\ verifyOk = {}
    /\ served = 0
    /\ procs = <<>>

NextOtp ==
    \/ Free(Tick)
    \/ Free(send_otp)
    \/ Free(verify_otp)
    \/ Free(send_return_otp)
    \/ Free(verify_return_otp)

SpecOtp == InitOtp /\ [][NextOtp]_vars

\* the OTP service together with attempt recording
NextGate ==
    \/ Free(send_otp)
    \/ Free(verify_otp)
    \/ Free(record_attempt)

SpecGate == InitOtp /\ [][NextGate]_vars

(* ------------------------ lifecycle specifications -------------------- *)
\* the hub's fleet
InitVehicles == <<NewVehicle(1, 5, "available", TRUE)>>

Init ==
    /\ now = 0
    /\ orders = <<>>
    /\ routes = <<>>
    /\ stops = <<>>
    /\ attempts = <<>>
    /\ vehicles = InitVehicles
    /\ drivers = InitDrivers
    /\ tokens = <<>>
    /\ imports = <<>>
    /\ routeSeq = 0
    /\ stopSeq = 0
    /\ upload = NoUpload
    /\ last = InitStart
    /\ verifyOk = {}
    /\ served = 0
    /\ procs = <<>>

Next ==
    \/ Counted(create_order)
    \/ Counted(update_order)
    \/ Counted(cancel_order)
    \/ Counted(create_route)
    \/ Counted(auto_plan_routes)
    \/ Counted(assign_route)
    \/ Counted(dispatch_route)
    \/ Counted(delete_route)
    \/ Counted(update_route)
    \/ Counted(record_attempt)
    \/ Counted(return_to_hub)

Spec == Init /\ [][Next]_vars

\* routes over one pending order: creation, assignment, dispatch
InitDispatch ==
    /\ now = 0
    /\ orders = <<NewOrder(1, Null, Null, 1)>>
    /\ routes = <<>>
    /\ stops = <<>>
    /\ attempts = <<>>
    /\ vehicles = InitVehicles
    /\ drivers = InitDrivers
    /\ tokens = <<>>
    /\ imports = <<>>
    /\ routeSeq = 0
    /\ stopSeq = 0
    /\ upload = NoUpload
    /\ last = InitStart
    /\ verifyOk = {}
    /\ served = 0
    /\ procs = <<>>

NextDispatch ==
    \/ Counted(create_route)
    \/ Counted(assign_route)
    \/ Counted(dispatch_route)

SpecDispatch == InitDispatch /\ [][NextDispatch]_vars

\* routes over one pending order: creation, dispatch, deletion
NextDelete ==
    \/ Free(create_route)
    \/ Free(dispatch_route)
    \/ Free(delete_route)

SpecDelete == InitDispatch /\ [][NextDelete]_vars

\* the driver's work on the stops of created routes
\* a route created for driver 1 with one stop, for the hub's one order
InitStop ==
    /\ now = 0
    /\ orders = <<CreateRouteOrderUpdate(NewOrder(1, Null, Null, 1), 1, 1, 0)>>
    /\ routes = <<NewRoute(1, Null, 1, 1, 1, Null)>>
    /\ stops = <<NewStop(1, 1, 1)>>
    /\ attempts = <<>>
    /\ vehicles = InitVehicles
    /\ drivers = InitDrivers
    /\ tokens = <<>>
    /\ imports = <<>>
    /\ routeSeq = 1
    /\ stopSeq = 1
    /\ upload = NoUpload
    /\ last = InitStart
    /\ verifyOk = {}
    /\ served = 0
    /\ procs = <<>>

NextStop ==
    \/ Free(arrive_at_stop)
    \/ Free(complete_stop)
    \/ Free(record_attempt)

SpecStop == InitStop /\ [][NextStop]_vars

\* attempts recorded one after the other on two orders
InitAttempt ==
    /\ now = 0
    /\ orders = <<NewOrder(1, Null, Null, 1), NewOrder(1, Null, Null, 1)>>
    /\ routes = <<>>
    /\ stops = <<>>
    /\ attempts = <<>>
    /\ vehicles = InitVehicles
    /\ drivers = InitDrivers
    /\ tokens = <<>>
    /\ imports = <<>>
    /\ routeSeq = 0
    /\ stopSeq = 0
    /\ upload = NoUpload
    /\ last = InitStart
    /\ verifyOk = {}
    /\ served = 0
    /\ procs = <<>>

NextAttempt == Free(record_attempt)

SpecAttempt == InitAttempt /\ [][NextAttempt]_vars

\* a few requests that give an order a route or a driver, or take them away
NextAssign ==
    \/ Counted(create_route)
    \/ Counted(auto_plan_routes)
    \/ Counted(assign_route)
    \/ Counted(delete_route)

SpecAssign == InitDispatch /\ [][NextAssign]_vars

\* one order under status patches, cancellation and return to hub
NextOrder ==
    \/ Free(update_order)
    \/ Free(cancel_order)
    \/ Free(return_to_hub)

SpecOrder == InitOtp /\ [][NextOrder]_vars

(* ------------------- cascades as sequences of writes ------------------ *)
\* assign_route and dispatch_route write the route, then each member order in
\* turn, then the vehicle or the driver, each in a store call of its own. The
\* request in progress is procs[1]; procs is empty between requests.
CascadeOps == {"assign_route", "dispatch_route"}

\* the first store calls of the request: the route is read or written, the
\* request is refused, or the member orders are selected
CascadeBegin(op, rid, driver, vehicle) ==
    LET arg == IF op = "assign_route"
               THEN [route_id |-> rid, driver_id |-> driver, vehicle_id |-> vehicle]
               ELSE [route_id |-> rid]
        run == [pc |-> "orders", op |-> op, arg |-> arg,
                todo |-> IdList({o \in OrderIds : orders[o].route_id = rid}),
                was |-> IF rid \in RouteIds THEN routes[rid] ELSE NoRet,
                before |-> orders]
    IN  /\ procs = <<>>
        /\ served < MaxRequests
        /\ served' = served + 1
        /\ \/ /\ rid \notin RouteIds
              /\ last' = Reply(op, "not_found", arg, NoRet)
              /\ UNCHANGED <<routes, procs>>
           \/ /\ rid \in RouteIds
              /\ op = "dispatch_route"
              /\ DispatchBlocked(routes[rid])
              /\ last' = Reply(op, "bad_request", arg, NoRet)
              /\ UNCHANGED <<routes, procs>>
           \/ /\ rid \in RouteIds
              /\ op = "dispatch_route"
              /\ ~DispatchBlocked(routes[rid])
              /\ routes' = [routes EXCEPT ![rid].status = "in_progress",
                                          ![rid].start_time = now]
              /\ procs' = <<run>>
              /\ UNCHANGED last
           \/ /\ rid \in RouteIds
              /\ op = "assign_route"
              /\ routes' = [routes EXCEPT ![rid].driver_id = driver,
                                          ![rid].vehicle_id = vehicle,
                                          ![rid].status = "assigned"]
              /\ procs' = <<run>>
              /\ UNCHANGED last
        /\ UNCHANGED <<now, orders, stops, attempts, vehicles, drivers, tokens, imports,
                       routeSeq, stopSeq, upload, verifyOk>>

cascade_begin ==
    \E op \in CascadeOps, rid \in RouteIdArgs, driver \in DriverIds,
       vehicle \in DOMAIN vehicles : CascadeBegin(op, rid, driver, vehicle)

\* delivery_orders.update for the next member order
cascade_order ==
    /\ procs # <<>>
    /\ procs[1].pc = "orders"
    /\ procs[1].todo # <<>>
    /\ LET me == procs[1]
           o == Head(me.todo)
       IN  /\ orders' = [orders EXCEPT ![o] =
                            IF me.op = "assign_route"
                            THEN AssignOrderUpdate(@, me.arg.driver_id, now)
                            ELSE DispatchOrderUpdate(@, now)]
           /\ procs' = <<[me EXCEPT !.todo = Tail(me.todo)]>>
    /\ UNCHANGED <<now, routes, stops, attempts, vehicles, drivers, tokens, imports,
                   routeSeq, stopSeq, upload, last, verifyOk, served>>

\* after the last order: hub_vehicles.update or drivers.update, and the response
cascade_end ==
    /\ procs # <<>>
    /\ procs[1].pc = "orders"
    /\ procs[1].todo = <<>>
    /\ LET me == procs[1]
       IN  /\ IF me.op = "assign_route"
              THEN /\ vehicles' = [vehicles EXCEPT
                                      ![me.arg.vehicle_id].status = "on_route",
                                      ![me.arg.vehicle_id].assigned_driver_id = me.arg.driver_id]
                   /\ UNCHANGED drivers
              ELSE /\ drivers' = [d \in DOMAIN drivers |->
                                    IF d = routes[me.arg.route_id].driver_id
                                    THEN [drivers[d] EXCEPT !.status = "on_delivery"]
                                    ELSE drivers[d]]
                   /\ UNCHANGED vehicles
           /\ last' = Reply(me.op, "ok", me.arg, NoRet)
    /\ procs' = <<>>
    /\ UNCHANGED <<now, orders, routes, stops, attempts, tokens, imports,
                   routeSeq, stopSeq, upload, verifyOk, served>>

CascadeStopRollsBack(me) ==
    /\ routes' = [routes EXCEPT ![me.arg.route_id] = me.was]
    /\ orders' = me.before

\* the request stops between two store calls: what is written stays written
CascadeStop(me) == UNCHANGED <<routes, orders>>

cascade_stop ==
    /\ procs # <<>>
    /\ procs[1].pc = "orders"
    /\ CascadeStop(procs[1])
    /\ procs' = <<[procs[1] EXCEPT !.pc = "stopped"]>>
    /\ UNCHANGED <<now, stops, attempts, vehicles, drivers, tokens, imports,
                   routeSeq, stopSeq, upload, last, verifyOk, served>>

\* a route created for driver 1 and vehicle 1 with two of the hub's three
\* orders
InitCascade ==
    /\ now = 0
    /\ orders = <<CreateRouteOrderUpdate(NewOrder(1, Null, Null, 1), 1, 1, 0),
                  CreateRouteOrderUpdate(NewOrder(1, Null, Null, 1), 1, 1, 0),
                  NewOrder(1, Null, Null, 1)>>
    /\ routes = <<NewRoute(1, 1, 1, 1, 2, Null)>>
    /\ stops = <<NewStop(1, 1, 1), NewStop(1, 2, 2)>>
    /\ attempts = <<>>
    /\ vehicles = InitVehicles
    /\ drivers = InitDrivers
    /\ tokens = <<>>
    /\ imports = <<>>
    /\ routeSeq = 1
    /\ stopSeq = 2
    /\ upload = NoUpload
    /\ last = InitStart
    /\ verifyOk = {}
    /\ served = 0
    /\ procs = <<>>

NextCascade ==
    \/ cascade_begin
    \/ cascade_order
    \/ cascade_end
    \/ cascade_stop

SpecCascade == InitCascade /\ [][NextCascade]_vars

(* ----------------------- interleaved planner runs --------------------- *)
\* the requests in flight of a specification whose store calls interleave
Procs == {1, 2}

\* an auto_plan_routes(hub 1, date 1, no vehicle_ids) request before its first
\* store call: orders read, remaining_orders, vehicles, the vehicle at turn,
\* its route_orders, the route created for it, the next of its orders to write
PlanStart ==
    [pc |-> "orders", read |-> {}, pool |-> <<>>, vs |-> <<>>, k |-> 1,
     load |-> <<>>, rid |-> Null, i |-> 1, placed |-> {}, created |-> {},
     assigned |-> 0, unassigned |-> 0, status |-> "running"]

\* orders_query.execute(), and the early return on an empty pool
PlanReadOrders(p) ==
    /\ procs[p].pc = "orders"
    /\ LET pool == IdList(PendingPool(1, 1))
       IN  procs' = [procs EXCEPT ![p] =
                        IF pool = <<>>
                        THEN [@ EXCEPT !.pc = "done", !.status = "ok"]
                        ELSE [@ EXCEPT !.pc = "vehicles", !.pool = pool,
                                       !.read = PendingPool(1, 1)]]
    /\ UNCHANGED <<now, orders, routes, stops, attempts, vehicles, drivers, tokens,
                   imports, routeSeq, stopSeq, upload, last, verifyOk, served>>

\* vehicles_result, the 400 on no vehicle, and remaining_orders.sort
PlanReadVehicles(p) ==
    /\ procs[p].pc = "vehicles"
    /\ LET vs == IdList(EligibleVehicles(1, {}))
       IN  procs' = [procs EXCEPT ![p] =
                        IF vs = <<>>
                        THEN [@ EXCEPT !.pc = "done", !.status = "bad_request"]
                        ELSE [@ EXCEPT !.pc = "fill", !.vs = vs,
                                       !.pool = SortOrders(@, Len(@))]]
    /\ UNCHANGED <<now, orders, routes, stops, attempts, vehicles, drivers, tokens,
                   imports, routeSeq, stopSeq, upload, last, verifyOk, served>>

\* one turn of "for vehicle in vehicles" up to delivery_routes.insert, or the
\* return after the loop
PlanFillVehicle(p) ==
    LET me == procs[p]
    IN  /\ me.pc = "fill"
        /\ \/ /\ (me.k > Len(me.vs) \/ me.pool = <<>>)
              /\ procs' = [procs EXCEPT ![p] = [me EXCEPT !.pc = "done", !.status = "ok",
                                                          !.unassigned = Len(me.pool)]]
              /\ UNCHANGED <<routes, routeSeq>>
           \/ /\ me.k <= Len(me.vs) /\ me.pool # <<>>
              /\ \E f \in {FillVehicle(me.pool, 1, CapacityOf(me.vs[me.k]),
                                       [taken |-> <<>>, weight |-> 0, rest |-> <<>>])} :
                    \/ /\ f.taken = <<>>
                       /\ procs' = [procs EXCEPT ![p] = [me EXCEPT !.pool = f.rest,
                                                                   !.k = me.k + 1]]
                       /\ UNCHANGED <<routes, routeSeq>>
                    \/ /\ f.taken # <<>>
                       /\ routeSeq < MaxRoutes
                       /\ routeSeq' = routeSeq + 1
                       /\ routes' = [r \in RouteIds \cup {routeSeq + 1} |->
                                        IF r \in RouteIds THEN routes[r]
                                        ELSE NewRoute(1, me.vs[me.k], Null, 1,
                                                      Len(f.taken), f.weight)]
                       /\ procs' = [procs EXCEPT ![p] =
                                       [me EXCEPT !.pc = "stop", !.pool = f.rest,
                                                  !.load = f.taken, !.rid = routeSeq + 1,
                                                  !.i = 1,
                                                  !.placed = @ \cup {f.taken[j] : j \in 1..Len(f.taken)}]]
        /\ UNCHANGED <<now, orders, stops, attempts, vehicles, drivers, tokens,
                       imports, stopSeq, upload, last, verifyOk, served>>

PlanInsertStopIfFree(p) ==
    LET me == procs[p]
    IN  /\ me.pc = "stop"
        /\ IF orders[me.load[me.i]].route_id = Null
           THEN /\ stopSeq' = stopSeq + 1
                /\ stops' = [s \in StopIds \cup {stopSeq + 1} |->
                               IF s \in StopIds THEN stops[s]
                               ELSE NewStop(me.rid, me.load[me.i], me.i)]
           ELSE UNCHANGED <<stops, stopSeq>>
        /\ procs' = [procs EXCEPT ![p].pc = "order"]
        /\ UNCHANGED <<now, orders, routes, attempts, vehicles, drivers, tokens,
                       imports, routeSeq, upload, last, verifyOk, served>>

\* route_stops.insert for the order at turn
PlanInsertStop(p) ==
    LET me == procs[p]
    IN  /\ me.pc = "stop"
        /\ stopSeq' = stopSeq + 1
        /\ stops' = [s \in StopIds \cup {stopSeq + 1} |->
                       IF s \in StopIds THEN stops[s]
                       ELSE NewStop(me.rid, me.load[me.i], me.i)]
        /\ procs' = [procs EXCEPT ![p].pc = "order"]
        /\ UNCHANGED <<now, orders, routes, attempts, vehicles, drivers, tokens,
                       imports, routeSeq, upload, last, verifyOk, served>>

\* delivery_orders.update(route_id) for the order at turn; after the last
\* order of the route, assigned_count and routes_created
PlanUpdateOrder(p) ==
    LET me == procs[p]
    IN  /\ me.pc = "order"
        /\ orders' = [orders EXCEPT ![me.load[me.i]].route_id = me.rid]
        /\ procs' = [procs EXCEPT ![p] =
                        IF me.i < Len(me.load)
                        THEN [me EXCEPT !.pc = "stop", !.i = me.i + 1]
                        ELSE [me EXCEPT !.pc = "fill", !.k = me.k + 1,
                                        !.assigned = @ + Len(me.load),
                                        !.created = @ \cup {me.rid}]]
        /\ UNCHANGED <<now, routes, stops, attempts, vehicles, drivers, tokens,
                       imports, routeSeq, stopSeq, upload, last, verifyOk, served>>

InitPlanRace ==
    /\ now = 0
    /\ \E n \in 1..MaxOrders, wp \in WeightPatterns, pp \in PostalPatterns, hp \in HubPatterns :
          orders = PlanOrders(n, wp, pp, hp)
    /\ routes = <<>>
    /\ stops = <<>>
    /\ attempts = <<>>
    /\ vehicles \in VehicleTables
    /\ drivers = InitDrivers
    /\ tokens = <<>>
    /\ imports = <<>>
    /\ routeSeq = 0
    /\ stopSeq = 0
    /\ upload = NoUpload
    /\ last = InitStart
    /\ verifyOk = {}
    /\ served = 0
    /\ procs = [p \in Procs |-> PlanStart]

NextPlanRace ==
    \/ \E p \in Procs : PlanReadOrders(p)
    \/ \E p \in Procs : PlanReadVehicles(p)
    \/ \E p \in Procs : PlanFillVehicle(p)
    \/ \E p \in Procs : PlanInsertStop(p)
    \/ \E p \in Procs : PlanUpdateOrder(p)

SpecPlanRace == InitPlanRace /\ [][NextPlanRace]_vars

(* ------------------------ interleaved send_otp ------------------------ *)
\* a send_otp(order, type) request before its first store call; seen is the
\* number of rows of otp_tokens at the time of its invalidation update
OtpStart(oid, typ, code) ==
    [pc |-> "order", order_id |-> oid, otp_type |-> typ, otp_code |-> code,
     expires_at |-> Null, seen |-> Null, status |-> "running"]

\* delivery_orders.select(...).single(), the 404, generate_otp and expires_at
OtpReadOrder(p) ==
    /\ procs[p].pc = "order"
    /\ procs' = [procs EXCEPT ![p] =
                    IF @.order_id \in OrderIds
                    THEN [@ EXCEPT !.pc = "invalidate", !.expires_at = now + OtpTtl]
                    ELSE [@ EXCEPT !.pc = "done", !.status = "not_found"]]
    /\ UNCHANGED <<now, orders, routes, stops, attempts, vehicles, drivers, tokens,
                   imports, routeSeq, stopSeq, upload, last, verifyOk, served>>

\* otp_tokens.update({"is_verified": True}) on the unverified tokens of the pair
OtpInvalidate(p) ==
    /\ procs[p].pc = "invalidate"
    /\ tokens' = InvalidateTokens(tokens, procs[p].order_id, procs[p].otp_type)
    /\ procs' = [procs EXCEPT ![p].pc = "insert", ![p].seen = Len(tokens)]
    /\ UNCHANGED <<now, orders, routes, stops, attempts, vehicles, drivers,
                   imports, routeSeq, stopSeq, upload, last, verifyOk, served>>

OtpInsertInvalidating(p) ==
    LET me == procs[p]
    IN  /\ me.pc = "insert"
        /\ Len(tokens) < MaxTokens
        /\ tokens' = Append(InvalidateTokens(tokens, me.order_id, me.otp_type),
                            NewToken(me.order_id, me.otp_code, me.otp_type, me.expires_at))
        /\ procs' = [procs EXCEPT ![p].pc = "done", ![p].status = "ok"]
        /\ UNCHANGED <<now, orders, routes, stops, attempts, vehicles, drivers,
                       imports, routeSeq, stopSeq, upload, last, verifyOk, served>>

\* otp_tokens.insert of the new token, and the response
OtpInsert(p) ==
    LET me == procs[p]
    IN  /\ me.pc = "insert"
        /\ Len(tokens) < MaxTokens
        /\ tokens' = Append(tokens, NewToken(me.order_id, me.otp_code, me.otp_type,
                                             me.expires_at))
        /\ procs' = [procs EXCEPT ![p].pc = "done", ![p].status = "ok"]
        /\ UNCHANGED <<now, orders, routes, stops, attempts, vehicles, drivers,
                       imports, routeSeq, stopSeq, upload, last, verifyOk, served>>

InitOtpRace ==
    /\ now = 0
    /\ orders = <<NewOrder(1, Null, Null, Null)>>
    /\ routes = <<>>
    /\ stops = <<>>
    /\ attempts = <<>>
    /\ vehicles = <<>>
    /\ drivers = InitDrivers
    /\ tokens = <<>>
    /\ imports = <<>>
    /\ routeSeq = 0
    /\ stopSeq = 0
    /\ upload = NoUpload
    /\ last = InitStart
    /\ verifyOk = {}
    /\ served = 0
    /\ procs \in [Procs -> {OtpStart(oid, typ, code) :
                              oid \in 1..2, typ \in OtpTypes, code \in Codes}]

NextOtpRace ==
    \/ \E p \in Procs : OtpReadOrder(p)
    \/ \E p \in Procs : OtpInvalidate(p)
    \/ \E p \in Procs : OtpInsert(p)

SpecOtpRace == InitOtpRace /\ [][NextOtpRace]_vars

(* ------------- interleaved record_attempt and cancel_order ------------ *)
\* a record_attempt request before its first store call: the driver found,
\* attempt_number as computed from the attempts read
AttemptStart(uid, oid, st) ==
    [op |-> "record_attempt", pc |-> "driver", user_id |-> uid, order_id |-> oid,
     attempt_status |-> st, driver_id |-> Null, attempt_number |-> Null,
     seen |-> NoneStr, status |-> "running"]

\* a cancel_order request before its first store call: the status it read
CancelStart(oid) ==
    [op |-> "cancel_order", pc |-> "read", user_id |-> Null, order_id |-> oid,
     attempt_status |-> NoneStr, driver_id |-> Null, attempt_number |-> Null,
     seen |-> NoneStr, status |-> "running"]

\* drivers.select("id").eq("user_id", ...).single(), and the 404
AttemptReadDriver(p) ==
    LET me == procs[p]
    IN  /\ me.op = "record_attempt" /\ me.pc = "driver"
        /\ procs' = [procs EXCEPT ![p] =
                        IF DriverOfUser(me.user_id) = {}
                        THEN [me EXCEPT !.pc = "done", !.status = "not_found"]
                        ELSE [me EXCEPT !.pc = "number",
                                        !.driver_id = CHOOSE d \in DriverOfUser(me.user_id) : TRUE]]
        /\ UNCHANGED <<now, orders, routes, stops, attempts, vehicles, drivers, tokens,
                       imports, routeSeq, stopSeq, upload, last, verifyOk, served>>

\* prev_attempts = ...order("attempt_number", desc=True).limit(1); number + 1
AttemptReadNumber(p) ==
    LET me == procs[p]
    IN  /\ me.op = "record_attempt" /\ me.pc = "number"
        /\ procs' = [procs EXCEPT ![p] =
                        [me EXCEPT !.pc = "insert",
                                   !.attempt_number = NextAttemptNumber(attempts, me.order_id)]]
        /\ UNCHANGED <<now, orders, routes, stops, attempts, vehicles, drivers, tokens,
                       imports, routeSeq, stopSeq, upload, last, verifyOk, served>>

\* delivery_attempts.insert(attempt_dict)
AttemptInsert(p) ==
    LET me == procs[p]
    IN  /\ me.op = "record_attempt" /\ me.pc = "insert"
        /\ Len(attempts) < MaxAttempts
        /\ attempts' = Append(attempts,
                              [order_id |-> me.order_id, route_stop_id |-> Null,
                               driver_id |-> me.driver_id,
                               attempt_number |-> me.attempt_number,
                               status |-> me.attempt_status])
        /\ procs' = [procs EXCEPT ![p].pc = "order"]
        /\ UNCHANGED <<now, orders, routes, stops, vehicles, drivers, tokens,
                       imports, routeSeq, stopSeq, upload, last, verifyOk, served>>

\* delivery_orders.update(status, delivered_at / failed_at); the request has
\* no route_stop_id, so this is its last store call
AttemptUpdateOrder(p) ==
    LET me == procs[p]
    IN  /\ me.op = "record_attempt" /\ me.pc = "order"
        /\ orders' = [orders EXCEPT ![me.order_id] =
                         AttemptOrderUpdate(@, me.attempt_status, now)]
        /\ procs' = [procs EXCEPT ![p] = [me EXCEPT !.pc = "done", !.status = "ok"]]
        /\ UNCHANGED <<now, routes, stops, attempts, vehicles, drivers, tokens,
                       imports, routeSeq, stopSeq, upload, last, verifyOk, served>>

\* delivery_orders.select("status").single(), the 404 and the 400
CancelReadOrder(p) ==
    LET me == procs[p]
    IN  /\ me.op = "cancel_order" /\ me.pc = "read"
        /\ procs' = [procs EXCEPT ![p] =
                        IF me.order_id \notin OrderIds
                        THEN [me EXCEPT !.pc = "done", !.status = "not_found"]
                        ELSE IF CancelRefused(orders[me.order_id].status)
                        THEN [me EXCEPT !.pc = "done", !.status = "bad_request",
                                        !.seen = orders[me.order_id].status]
                        ELSE [me EXCEPT !.pc = "write",
                                        !.seen = orders[me.order_id].status]]
        /\ UNCHANGED <<now, orders, routes, stops, attempts, vehicles, drivers, tokens,
                       imports, routeSeq, stopSeq, upload, last, verifyOk, served>>

\* delivery_orders.update({"status": "cancelled"}).eq("id", order_id)
CancelWriteOrder(p) ==
    LET me == procs[p]
    IN  /\ me.op = "cancel_order" /\ me.pc = "write"
        /\ orders' = [orders EXCEPT ![me.order_id].status = "cancelled"]
        /\ procs' = [procs EXCEPT ![p] = [me EXCEPT !.pc = "done", !.status = "ok"]]
        /\ UNCHANGED <<now, routes, stops, attempts, vehicles, drivers, tokens,
                       imports, routeSeq, stopSeq, upload, last, verifyOk, served>>

\* the requests of two clients: delivery attempts by a driver's user and
\* cancellations
RaceRequests ==
    {AttemptStart(uid, oid, st) : uid \in {1}, oid \in 1..2, st \in AttemptStatuses}
        \cup {CancelStart(oid) : oid \in 1..3}

InitOrderRace ==
    /\ now = 0
    /\ orders = <<NewOrder(1, Null, Null, 1), NewOrder(1, Null, Null, 1)>>
    /\ routes = <<>>
    /\ stops = <<>>
    /\ attempts = <<>>
    /\ vehicles = InitVehicles
    /\ drivers = InitDrivers
    /\ tokens = <<>>
    /\ imports = <<>>
    /\ routeSeq = 0
    /\ stopSeq = 0
    /\ upload = NoUpload
    /\ last = InitStart
    /\ verifyOk = {}
    /\ served = 0
    /\ procs \in [Procs -> RaceRequests]

NextOrderRace ==
    \/ \E p \in Procs : AttemptReadDriver(p)
    \/ \E p \in Procs : AttemptReadNumber(p)
    \/ \E p \in Procs : AttemptInsert(p)
    \/ \E p \in Procs : AttemptUpdateOrder(p)
    \/ \E p \in Procs : CancelReadOrder(p)
    \/ \E p \in Procs : CancelWriteOrder(p)

SpecOrderRace == InitOrderRace /\ [][NextOrderRace]_vars

(* ------------------------------- claims ------------------------------- *)
OtpPairs == {<<oid, typ>> : oid \in OrderIdArgs, typ \in OtpTypes}

\* a step that serves a request `op` (the clock stands still while it runs)
Served(op) == now' = now /\ last'.op = op

AtMostOneUnverified ==
    \A p \in OtpPairs : Cardinality(UnverifiedTokens(tokens, p[1], p[2])) <= 1

\* the second of two successive successful send_otp calls for the same pair
SecondSendStep ==
    /\ Served("send_otp") /\ last'.status = "ok"
    /\ last.op = "send_otp" /\ last.status = "ok"
    /\ last'.arg = last.arg
    /\ Len(tokens') = Len(tokens) + 1

\* C5: after non-overlapping send_otp / verify_otp calls every (order, type)
\* pair has at most one unverified token; after two successive send_otp calls
\* for a pair the only unverified token is the second one, and the first one
\* is verified although verify_otp did not run in between.
C5_OneUnverifiedToken ==
    /\ []AtMostOneUnverified
    /\ [][SecondSendStep =>
            /\ UnverifiedTokens(tokens', last'.arg.order_id, last'.arg.otp_type)
                  = {Len(tokens')}
            /\ ~tokens[Len(tokens)].is_verified
            /\ tokens'[Len(tokens)].is_verified]_vars

C5_Witness ==
    /\ last.op = "send_otp" /\ last.status = "ok"
    /\ Len(tokens) = 2
    /\ tokens[1].order_id = tokens[2].order_id
    /\ tokens[1].otp_type = tokens[2].otp_type
    /\ tokens[1].is_verified /\ ~tokens[2].is_verified
    /\ verifyOk = {}

\* verify_otp right after the send_otp of the pair, with the code that was
\* sent and not after its expiry
FirstVerifyStep ==
    /\ Served("verify_otp")
    /\ last.op = "send_otp" /\ last.status = "ok"
    /\ last'.arg.order_id = last.arg.order_id
    /\ last'.arg.otp_type = last.arg.otp_type
    /\ last'.arg.otp_code = last.ret.otp_code
    /\ now <= last.ret.expires_at

\* verify_otp repeated with the same code after it returned success
SecondVerifyStep ==
    /\ Served("verify_otp")
    /\ last.op = "verify_otp" /\ last.status = "ok" /\ last.ret.success
    /\ last'.arg = last.arg

\* C6: the first verify_otp with the sent code before expiry succeeds and
\* marks the token verified; the same verify_otp repeated with no send_otp in
\* between fails with the "no active OTP" error and changes no token.
C6_VerifySucceedsOnce ==
    /\ [][FirstVerifyStep =>
            /\ last'.status = "ok" /\ last'.ret.success
            /\ last'.ret.token = Len(tokens)
            /\ tokens'[Len(tokens)].is_verified]_vars
    /\ [][SecondVerifyStep =>
            /\ last'.status = "no_active_otp"
            /\ tokens' = tokens]_vars

C6_Witness ==
    /\ last.op = "verify_otp" /\ last.status = "no_active_otp"
    /\ Len(tokens) = 1
    /\ tokens[1].is_verified
    /\ tokens[1].order_id = last.arg.order_id
    /\ tokens[1].otp_type = last.arg.otp_type
    /\ tokens[1].otp_code = last.arg.otp_code
    /\ <<last.arg.order_id, last.arg.otp_type>> \in verifyOk

\* verify_otp with the code of the active token, after its expires_at
LateVerifyStep ==
    /\ Served("verify_otp")
    /\ UnverifiedTokens(tokens, last'.arg.order_id, last'.arg.otp_type) # {}
    /\ LET tok == LatestUnverified(tokens, last'.arg.order_id, last'.arg.otp_type)
       IN  /\ tokens[tok].otp_code = last'.arg.otp_code
           /\ now > tokens[tok].expires_at

\* C7: verify_otp later than the active token's expires_at returns the expired
\* outcome (success = false, no error) even with the right code, and leaves
\* the token unverified.
C7_ExpiredOutcome ==
    [][LateVerifyStep =>
          /\ last'.status = "ok"
          /\ ~last'.ret.success
          /\ last'.ret.message = "OTP has expired"
          /\ tokens' = tokens]_vars

C7_Witness ==
    /\ last.op = "verify_otp" /\ last.status = "ok"
    /\ last.ret.message = "OTP has expired"
    /\ ~tokens[last.ret.token].is_verified
    /\ tokens[last.ret.token].otp_code = last.arg.otp_code
    /\ now > tokens[last.ret.token].expires_at

\* C8: an order is delivered through record_attempt only after a verify_otp of
\* type delivery for that order has returned success.
C8_DeliveryGatedByOtp ==
    \A o \in OrderIds :
        orders[o].status = "delivered" => <<o, "delivery">> \in verifyOk

\* the orders of an import batch, in insertion order
BatchOrders(batch) ==
    LET OfBatch(o) == o.import_batch_id = batch
    IN  SelectSeq(orders, OfBatch)

\* C9: an upload_csv run finalizes the batch and returns a summary with
\* processed + failed = total_records = number of data rows, and the number
\* of orders inserted with the batch id equals processed.
C9_ImportCounts ==
    (last.op = "upload_csv" /\ last.status = "ok") =>
        LET b == imports[last.ret.import_id]
            n == Len(last.arg.rows)
        IN  /\ b.total_records = n
            /\ b.processed + b.failed = b.total_records
            /\ last.ret.total_records = n
            /\ last.ret.processed = b.processed
            /\ last.ret.failed = b.failed
            /\ Len(BatchOrders(last.ret.import_id)) = b.processed

C9_Witness ==
    /\ last.op = "upload_csv" /\ last.status = "ok"
    /\ last.ret.processed = 1
    /\ last.ret.failed = 1
    /\ Len(orders) = 1

\* a row that lacks a required field, holds an optional number that does not
\* coerce, or is malformed (more cells than columns)
RowInvalid(header, row) ==
    \/ row.surplus
    \/ \E k \in 1..Len(RequiredFields) :
          FindField(header, row, RequiredAliases(RequiredFields[k])) \in {NoneStr, ""}
    \/ \E f \in IntFields \cap {OptionalFields[k] : k \in 1..Len(OptionalFields)} :
          LET v == FindField(header, row, OptionalAliases(f))
          IN  v \notin {NoneStr, ""} /\ Strip(v) # "" /\ ~IntOf(Strip(v)).ok
    \/ \E f \in FloatFields \cap {OptionalFields[k] : k \in 1..Len(OptionalFields)} :
          LET v == FindField(header, row, OptionalAliases(f))
          IN  v \notin {NoneStr, ""} /\ Strip(v) # "" /\ ~FloatOf(Strip(v)).ok

ValidRows(file) == {i \in 1..Len(file.rows) : ~RowInvalid(file.header, file.rows[i])}

\* the k-th valid row of the file
KthValid(file, k) ==
    CHOOSE i \in ValidRows(file) : Cardinality({j \in ValidRows(file) : j < i}) = k - 1

NewStops == {s \in DOMAIN stops' : s \notin DOMAIN stops}

\* C3: for an auto_plan_routes run that returns a result, the stops created over
\* the created routes number total_orders_assigned, and total_orders_assigned
\* + unassigned_orders is the number of pending, route-less orders selected at
\* the start of the run.
C3_PlanCounts ==
    [][(Served("auto_plan_routes") /\ last'.status = "ok") =>
          LET ret == last'.ret
              arg == last'.arg
          IN  /\ Cardinality({s \in NewStops : stops'[s].route_id \in ret.routes})
                    = ret.total_orders_assigned
              /\ \A s \in NewStops : stops'[s].route_id \in ret.routes
              /\ ret.routes_created = Cardinality(ret.routes)
              /\ ret.total_orders_assigned + ret.unassigned_orders
                    = Cardinality(PendingPool(arg.hub_id, arg.route_date))]_vars

C3_Witness ==
    /\ last.op = "auto_plan_routes" /\ last.status = "ok"
    /\ last.ret.routes_created = 2
    /\ last.ret.unassigned_orders >= 1
    /\ last.ret.total_orders_assigned >= 3

RECURSIVE SumWeights(_)
SumWeights(S) ==
    IF S = {} THEN 0
    ELSE LET o == CHOOSE x \in S : TRUE
         IN  WeightOf(o) + SumWeights(S \ {o})

\* C4: on every route created by auto_plan_routes the weights of the orders
\* placed on it sum to at most the vehicle's capacity_kg whenever capacity_kg
\* is set (0 included), and the route has at most 30 stops.
C4_CapacityAndStopLimit ==
    (last.op = "auto_plan_routes" /\ last.status = "ok") =>
        \A r \in last.ret.routes :
            LET placed == {o \in OrderIds : orders[o].route_id = r}
                cap == vehicles[routes[r].vehicle_id].capacity_kg
            IN  /\ cap # Null => SumWeights(placed) <= cap
                /\ Cardinality({s \in StopIds : stops[s].route_id = r}) <= MaxStopsPerRoute

\* the edges of the order status graph; cancelled is entered from every status
\* but delivered and cancelled
GraphEdges ==
    {<<"pending", "assigned">>, <<"assigned", "out_for_delivery">>,
     <<"out_for_delivery", "delivered">>, <<"out_for_delivery", "failed">>,
     <<"failed", "returned_to_hub">>}
    \cup {<<s, "cancelled">> : s \in OrderStatuses \ {"delivered", "cancelled"}}

\* C1: every change of an order's status, by whichever operation, follows an
\* edge of the status graph.
C1_StatusFollowsGraph ==
    [][\A o \in OrderIds :
          orders'[o].status # orders[o].status =>
              <<orders[o].status, orders'[o].status>> \in GraphEdges]_vars

\* the route a dispatch_route reply answers
Dispatched == last'.arg.route_id

\* C2: dispatch_route on a route whose driver_id or vehicle_id is null is
\* refused with the handler's client error (HTTP 400, the Conflict of the error
\* taxonomy) and writes nothing: the route, its orders and the drivers are as
\* before the call.
C2_DispatchNeedsDriverAndVehicle ==
    [][(/\ Served("dispatch_route")
        /\ Dispatched \in RouteIds
        /\ (routes[Dispatched].driver_id = Null \/ routes[Dispatched].vehicle_id = Null))
       => /\ last'.status = "bad_request"
          /\ routes'[Dispatched].status = routes[Dispatched].status
          /\ routes'[Dispatched].start_time = routes[Dispatched].start_time
          /\ \A o \in OrderIds :
                orders[o].route_id = Dispatched =>
                    /\ orders'[o].status = orders[o].status
                    /\ orders'[o].out_for_delivery_at = orders[o].out_for_delivery_at
          /\ \A d \in DOMAIN drivers : drivers'[d].status = drivers[d].status]_vars

\* a dispatch was refused for a route that has a driver, no vehicle, and a
\* member order
C2_Witness ==
    /\ last.op = "dispatch_route" /\ last.status = "bad_request"
    /\ last.arg.route_id \in RouteIds
    /\ routes[last.arg.route_id].driver_id # Null
    /\ routes[last.arg.route_id].vehicle_id = Null
    /\ routes[last.arg.route_id].status = "planned"
    /\ \E o \in OrderIds : orders[o].route_id = last.arg.route_id /\ orders[o].status = "assigned"

\* the routes that are neither completed nor cancelled
ActiveRoutes == {r \in RouteIds : routes[r].status \notin {"completed", "cancelled"}}

\* the active routes with a stop for order o
ActiveRoutesOf(o) ==
    {stops[s].route_id : s \in {x \in StopIds : stops[x].order_id = o}} \cap ActiveRoutes

\* C11: every order is referenced by stops of at most one active route, and
\* its route_id names that route.
C11_OneActiveRoutePerOrder ==
    \A o \in OrderIds :
        /\ Cardinality(ActiveRoutesOf(o)) <= 1
        /\ ActiveRoutesOf(o) # {} => orders[o].route_id \in ActiveRoutesOf(o)

\* the routes with a stop for order o
StopRoutesOf(o) == {stops[s].route_id : s \in {x \in StopIds : stops[x].order_id = o}}

\* C12: two auto_plan_routes runs whose store calls interleave are not
\* serialized: an order that both runs read while it was pending and
\* route-less, and that both placed, ends up with stops on two different
\* routes (its route_id names one of them).
C12_InterleavedPlansDoubleAssign ==
    \A o \in OrderIds :
        (\A p \in Procs : /\ procs[p].pc = "done"
                          /\ o \in procs[p].read
                          /\ o \in procs[p].placed)
        => /\ Cardinality(StopRoutesOf(o)) = 2
           /\ orders[o].route_id \in StopRoutesOf(o)

C12_Witness ==
    /\ \A p \in Procs : procs[p].pc = "done" /\ procs[p].status = "ok"
    /\ \E o \in OrderIds :
          /\ \A p \in Procs : o \in procs[p].read
          /\ Cardinality(StopRoutesOf(o)) = 2
          /\ \A r \in StopRoutesOf(o) : r \in RouteIds /\ routes[r].status = "planned"

\* both send_otp requests are for the pair and ran their invalidation update
\* with the same rows in otp_tokens: before either inserted its token
InvalidatedTogether(oid, typ) ==
    /\ \A p \in Procs : /\ procs[p].order_id = oid
                        /\ procs[p].otp_type = typ
                        /\ procs[p].pc = "done" /\ procs[p].status = "ok"
    /\ \A p, q \in Procs : procs[p].seen = procs[q].seen

\* C13: when two send_otp calls for the same (order_id, otp_type) both run
\* their invalidation update before either inserts its token, two tokens with
\* is_verified = false coexist for the pair.
C13_InterleavedSendsLeaveTwoTokens ==
    \A pair \in OtpPairs :
        InvalidatedTogether(pair[1], pair[2])
            => Cardinality(UnverifiedTokens(tokens, pair[1], pair[2])) = 2

C13_Witness ==
    \E pair \in OtpPairs :
        /\ InvalidatedTogether(pair[1], pair[2])
        /\ Cardinality(UnverifiedTokens(tokens, pair[1], pair[2])) = 2

\* the order a cancel_order reply answers
Cancelled == last'.arg.order_id

\* C14: cancel_order on an existing order is refused with the handler's client
\* error (HTTP 400, the Conflict of the error taxonomy) and leaves the order as
\* it is exactly when its status is delivered or cancelled; in every other
\* status it sets the status to cancelled.
C14_CancelRefusedWhenDeliveredOrCancelled ==
    [][(Served("cancel_order") /\ Cancelled \in OrderIds) =>
          IF orders[Cancelled].status \in {"delivered", "cancelled"}
          THEN last'.status = "bad_request" /\ orders' = orders
          ELSE /\ last'.status = "ok"
               /\ orders' = [orders EXCEPT ![Cancelled].status = "cancelled"]]_vars

\* a cancel was refused on a delivered order
C14_Witness ==
    /\ last.op = "cancel_order" /\ last.status = "bad_request"
    /\ last.arg.order_id \in OrderIds
    /\ orders[last.arg.order_id].status = "delivered"

TerminalStatuses == {"delivered", "cancelled", "returned_to_hub"}

\* C15: once an order's status is delivered, cancelled or returned_to_hub, no
\* later operation changes it.
C15_TerminalStatusesStay ==
    [][\A o \in OrderIds :
          orders[o].status \in TerminalStatuses => orders'[o].status = orders[o].status]_vars

\* order a stands before order b in the pool sorted by (postal_code, city):
\* the sort is stable and the store returns the rows in id order
SortedBefore(a, b) ==
    \/ KeyLess(SortKey(a), SortKey(b))
    \/ (SortKey(a) = SortKey(b) /\ a < b)

\* the orders of pool a run placed on the route it created for vehicle v
PlacedOn(pool, v) ==
    {o \in pool : /\ orders'[o].route_id \in last'.ret.routes
                  /\ routes'[orders'[o].route_id].vehicle_id = v}

\* the orders placed on v's route that stand before order o
PlacedBefore(pool, v, o) == {q \in PlacedOn(pool, v) : SortedBefore(q, o)}

\* the pool remaining at the turn of vehicle v
RemainingAt(pool, vs, v) == pool \ UNION {PlacedOn(pool, u) : u \in {x \in vs : x < v}}

\* the run filled every vehicle by the scan in sorted order with the fit test
FilledByScan(pool, vs) ==
    \A v \in vs : \A o \in RemainingAt(pool, vs, v) :
        /\ o \in PlacedOn(pool, v) <=>
              /\ SumWeights(PlacedBefore(pool, v, o)) + WeightOf(o) <= CapacityOf(v)
              /\ Cardinality(PlacedBefore(pool, v, o)) < MaxStopsPerRoute
        /\ o \in PlacedOn(pool, v) =>
              \E s \in NewStops :
                  /\ stops'[s].order_id = o
                  /\ stops'[s].route_id = orders'[o].route_id
                  /\ stops'[s].sequence = Cardinality(PlacedBefore(pool, v, o)) + 1

\* three pending orders of 2, 3 and 4 kg in that postal order, and one
\* vehicle of capacity 5
ThreeOrdersOneVehicle(pool, vs) ==
    /\ pool = {1, 2, 3}
    /\ SortedBefore(1, 2) /\ SortedBefore(2, 3)
    /\ orders[1].total_weight_kg = 2 /\ orders[2].total_weight_kg = 3
    /\ orders[3].total_weight_kg = 4
    /\ \E v \in vs : vs = {v} /\ vehicles[v].capacity_kg = 5

\* what the run does on them: one route, the 2 kg order at sequence 1, the
\* 3 kg order at sequence 2, one order unassigned
OneRouteTwoStops(ret, st, ords) ==
    /\ ret.routes_created = 1 /\ ret.total_orders_assigned = 2
    /\ ret.unassigned_orders = 1
    /\ \E r \in ret.routes :
          /\ {<<st[s].order_id, st[s].sequence>> : s \in {x \in DOMAIN st : st[x].route_id = r}}
                = {<<1, 1>>, <<2, 2>>}
          /\ ords[1].route_id = r /\ ords[2].route_id = r
    /\ ords[3].route_id = Null

C17_PlacedOrdersFormPrefix ==
    [][(Served("auto_plan_routes") /\ last'.status = "ok") =>
          LET pool == PendingPool(last'.arg.hub_id, last'.arg.route_date)
              vs == EligibleVehicles(last'.arg.hub_id, last'.arg.vehicle_ids)
          IN  \A v \in vs : \A o \in PlacedOn(pool, v) :
                 \A q \in RemainingAt(pool, vs, v) :
                    SortedBefore(q, o) => q \in PlacedOn(pool, v)]_vars

\* C17 amended: a vehicle's scan goes on after a rejection. An order of the
\* pool remaining at the vehicle's turn is left off its route only when, at its
\* turn in sorted order, it does not fit the weight or the 30-stop limit; the
\* orders placed keep their sorted order on the route.
C17_RejectedOnlyWhenNotFitting ==
    [][(Served("auto_plan_routes") /\ last'.status = "ok") =>
          LET pool == PendingPool(last'.arg.hub_id, last'.arg.route_date)
              vs == EligibleVehicles(last'.arg.hub_id, last'.arg.vehicle_ids)
          IN  \A v \in vs :
                 /\ \A q \in RemainingAt(pool, vs, v) \ PlacedOn(pool, v) :
                       \/ SumWeights(PlacedBefore(pool, v, q)) + WeightOf(q) > CapacityOf(v)
                       \/ Cardinality(PlacedBefore(pool, v, q)) >= MaxStopsPerRoute
                 /\ \A o, q \in PlacedOn(pool, v) :
                       SortedBefore(q, o) =>
                          \A s, t \in NewStops :
                             (stops'[s].order_id = q /\ stops'[t].order_id = o)
                                => stops'[s].sequence < stops'[t].sequence]_vars

\* a run left an order of its pool unassigned and placed a later order of the
\* sorted pool on the route of its first vehicle
C17_Witness ==
    /\ last.op = "auto_plan_routes" /\ last.status = "ok"
    /\ routeSeq = 1 /\ last.ret.routes = {1}
    /\ \E o, q \in OrderIds :
          /\ orders[o].route_id = 1
          /\ orders[q].route_id = Null
          /\ orders[q].status = "pending"
          /\ orders[q].hub_id = last.arg.hub_id
          /\ orders[q].scheduled_date = last.arg.route_date
          /\ SortedBefore(q, o)

\* C18: assign_route succeeds only on a route whose status is planned or
\* assigned; on a route in any other status it is rejected and changes
\* neither the routes, the orders nor the vehicles.
C18_AssignOnlyPlannedOrAssigned ==
    [][(Served("assign_route") /\ last'.arg.route_id \in RouteIds
          /\ routes[last'.arg.route_id].status \notin {"planned", "assigned"}) =>
             /\ last'.status # "ok"
             /\ UNCHANGED <<routes, orders, vehicles>>]_vars

\* C19: after a successful assign_route(route, driver, vehicle) the route is
\* assigned with that driver and vehicle, every order whose route_id is the
\* route is assigned to that driver with assigned_at set, and the vehicle is
\* on_route with that driver as assigned_driver_id.
C19_AssignPostconditions ==
    [][(Served("assign_route") /\ last'.status = "ok") =>
          LET rid == last'.arg.route_id
              driver == last'.arg.driver_id
              vehicle == last'.arg.vehicle_id
          IN  /\ routes'[rid].status = "assigned"
              /\ routes'[rid].driver_id = driver
              /\ routes'[rid].vehicle_id = vehicle
              /\ \A o \in DOMAIN orders' :
                    orders'[o].route_id = rid =>
                       /\ orders'[o].status = "assigned"
                       /\ orders'[o].driver_id = driver
                       /\ orders'[o].assigned_at # Null
              /\ vehicles'[vehicle].status = "on_route"
              /\ vehicles'[vehicle].assigned_driver_id = driver]_vars

\* assign_route has assigned a route that holds an order
C19_Witness ==
    /\ last.op = "assign_route" /\ last.status = "ok"
    /\ \E o \in OrderIds :
          /\ orders[o].route_id = last.arg.route_id
          /\ orders[o].status = "assigned"
          /\ orders[o].assigned_at # Null
    /\ vehicles[last.arg.vehicle_id].status = "on_route"

\* C20: dispatch_route succeeds only on a route whose status is assigned; on a
\* route with driver and vehicle present in any other status it is rejected
\* and leaves the routes, the orders and the drivers unchanged.
C20_DispatchOnlyAssigned ==
    [][(Served("dispatch_route") /\ last'.arg.route_id \in RouteIds
          /\ ~DispatchBlocked(routes[last'.arg.route_id])
          /\ routes[last'.arg.route_id].status # "assigned") =>
             /\ last'.status # "ok"
             /\ UNCHANGED <<routes, orders, drivers>>]_vars

\* C21: after a successful dispatch_route the route is in_progress with
\* start_time set, every order whose route_id is the route is
\* out_for_delivery with out_for_delivery_at set, and the route's driver is
\* on_delivery.
C21_DispatchPostconditions ==
    [][(Served("dispatch_route") /\ last'.status = "ok") =>
          LET rid == last'.arg.route_id
          IN  /\ routes'[rid].status = "in_progress"
              /\ routes'[rid].start_time # Null
              /\ \A o \in DOMAIN orders' :
                    orders'[o].route_id = rid =>
                       /\ orders'[o].status = "out_for_delivery"
                       /\ orders'[o].out_for_delivery_at # Null
              /\ routes'[rid].driver_id \in DOMAIN drivers'
              /\ drivers'[routes'[rid].driver_id].status = "on_delivery"]_vars

\* dispatch_route has dispatched a route that holds an order
C21_Witness ==
    /\ last.op = "dispatch_route" /\ last.status = "ok"
    /\ routes[last.arg.route_id].status = "in_progress"
    /\ \E o \in OrderIds :
          /\ orders[o].route_id = last.arg.route_id
          /\ orders[o].status = "out_for_delivery"
          /\ orders[o].out_for_delivery_at # Null

\* C22: after delete_route on a route that is not completed or cancelled, the
\* route is gone, no stop references it, every order whose route_id was the
\* route has route_id and driver_id null and status pending, and the other
\* orders are unchanged.
C22_DeleteRouteCascades ==
    [][(Served("delete_route") /\ last'.arg.route_id \in RouteIds
          /\ routes[last'.arg.route_id].status \notin {"completed", "cancelled"}) =>
          LET rid == last'.arg.route_id
          IN  /\ last'.status = "ok"
              /\ rid \notin DOMAIN routes'
              /\ \A s \in DOMAIN stops' : stops'[s].route_id # rid
              /\ DOMAIN orders' = DOMAIN orders
              /\ \A o \in OrderIds :
                    IF orders[o].route_id = rid
                    THEN /\ orders'[o].route_id = Null
                         /\ orders'[o].driver_id = Null
                         /\ orders'[o].status = "pending"
                    ELSE orders'[o] = orders[o]]_vars

\* delete_route has deleted a dispatched route and reset its order
C22_Witness ==
    /\ last.op = "delete_route" /\ last.status = "ok"
    /\ last.arg.route_id <= routeSeq
    /\ last.arg.route_id \notin RouteIds
    /\ \E o \in OrderIds :
          /\ orders[o].out_for_delivery_at # Null
          /\ orders[o].status = "pending"
          /\ orders[o].route_id = Null
          /\ orders[o].driver_id = Null

\* C23: auto_plan_routes called when no order is pending, or when orders are
\* pending but no vehicle of the hub is eligible, returns normally with
\* routes_created = 0 and creates no route, no stop and no order update.
C23_NothingToPlanReturnsZero ==
    [][(Served("auto_plan_routes")
          /\ \/ PendingPool(last'.arg.hub_id, last'.arg.route_date) = {}
             \/ EligibleVehicles(last'.arg.hub_id, last'.arg.vehicle_ids) = {}) =>
             /\ last'.status = "ok"
             /\ last'.ret.routes_created = 0
             /\ UNCHANGED <<routes, stops, orders>>]_vars

\* the status timestamps of an order row
Stamps(o) == <<o.assigned_at, o.out_for_delivery_at, o.delivered_at, o.failed_at,
               o.returned_at>>

\* C24: each status timestamp of an order (assigned_at, out_for_delivery_at,
\* delivered_at, failed_at, returned_at), once non-null, is never overwritten
\* with a different value and never reset to null.
C24_TimestampsWrittenOnce ==
    [][\A o \in OrderIds : \A i \in 1..5 :
          Stamps(orders[o])[i] # Null =>
             /\ o \in DOMAIN orders'
             /\ Stamps(orders'[o])[i] = Stamps(orders[o])[i]]_vars

\* the changes of a route's status the specification allows
RouteEdges ==
    {<<"planned", "assigned">>, <<"assigned", "assigned">>,
     <<"assigned", "in_progress">>, <<"in_progress", "completed">>,
     <<"planned", "cancelled">>, <<"assigned", "cancelled">>}

\* C25: a route's status is one of planned, assigned, in_progress, completed,
\* cancelled and changes only along planned->assigned, assigned->assigned,
\* assigned->in_progress, in_progress->completed, planned->cancelled,
\* assigned->cancelled.
C25_RouteStatusFollowsGraph ==
    [][\A r \in RouteIds :
          /\ routes[r].status \in RouteStatuses
          /\ (r \in DOMAIN routes' /\ routes'[r].status # routes[r].status) =>
                <<routes[r].status, routes'[r].status>> \in RouteEdges]_vars

\* the statuses of a stop in the specification
StopStatuses == {"pending", "arrived", "delivered", "failed"}

\* the changes of a stop's status the specification allows
StopEdges ==
    {<<"pending", "arrived">>, <<"arrived", "delivered">>, <<"arrived", "failed">>}

\* C26: a stop's status is one of pending, arrived, delivered, failed and
\* moves only pending->arrived->{delivered|failed}: a delivered or failed stop
\* is never set back to arrived, and no stop status other than delivered or
\* failed is written by complete_stop or record_attempt.
C26_StopStatusFollowsGraph ==
    [][\A s \in StopIds :
          /\ stops[s].status \in StopStatuses
          /\ (s \in DOMAIN stops' /\ stops'[s].status # stops[s].status) =>
                <<stops[s].status, stops'[s].status>> \in StopEdges]_vars

\* C27: every route created by an auto_plan_routes run is planned and has no
\* driver; the run changes only the route_id of the orders it places, whose
\* status stays pending and whose driver_id stays as it was; the orders it does
\* not place, the routes that existed and all vehicles are unchanged.
C27_PlanFrame ==
    [][(Served("auto_plan_routes") /\ last'.status = "ok") =>
          LET new == last'.ret.routes
          IN  /\ \A r \in new : /\ r \in DOMAIN routes' /\ r \notin RouteIds
                                /\ routes'[r].status = "planned"
                                /\ routes'[r].driver_id = Null
              /\ \A r \in RouteIds : r \in DOMAIN routes' /\ routes'[r] = routes[r]
              /\ DOMAIN orders' = DOMAIN orders
              /\ \A o \in OrderIds :
                    IF orders'[o].route_id \in new
                    THEN /\ orders'[o] = [orders[o] EXCEPT !.route_id = orders'[o].route_id]
                         /\ orders'[o].status = "pending"
                         /\ orders'[o].driver_id = Null
                    ELSE orders'[o] = orders[o]
              /\ vehicles' = vehicles]_vars

\* a run has placed an order and left another of its pool unassigned, with an
\* order of another hub in the store
C27_Witness ==
    /\ last.op = "auto_plan_routes" /\ last.status = "ok"
    /\ last.ret.routes_created >= 1
    /\ last.ret.unassigned_orders >= 1
    /\ \E o \in OrderIds : orders[o].route_id \in last.ret.routes /\ orders[o].status = "pending"
    /\ \E o \in OrderIds : orders[o].hub_id # last.arg.hub_id /\ orders[o].route_id = Null

\* verify_otp with the code of the active, unexpired token, right after a
\* verify_otp for the same order and type returned "Invalid OTP"
RetryVerifyStep ==
    /\ Served("verify_otp")
    /\ last.op = "verify_otp" /\ last.status = "ok" /\ ~last.ret.success
    /\ last'.arg.order_id = last.arg.order_id
    /\ last'.arg.otp_type = last.arg.otp_type
    /\ last'.arg.otp_code = tokens[last.ret.token].otp_code
    /\ now <= tokens[last.ret.token].expires_at

\* C28: a verify_otp that returns a non-success outcome (wrong code, expired)
\* is a normal result and leaves every token unchanged; a verify_otp with the
\* right code before expiry that follows it succeeds; and a token becomes
\* verified only by a successful verify_otp that picked it or by a send_otp
\* for its order and type.
C28_FailedVerifyChangesNothing ==
    /\ [][(Served("verify_otp") /\ last'.status = "ok" /\ ~last'.ret.success) =>
            /\ tokens' = tokens
            /\ ~tokens'[last'.ret.token].is_verified]_vars
    /\ [][RetryVerifyStep =>
            /\ last'.status = "ok" /\ last'.ret.success
            /\ last'.ret.token = last.ret.token
            /\ tokens'[last.ret.token].is_verified]_vars
    /\ [][\A i \in 1..Len(tokens) :
            (~tokens[i].is_verified /\ tokens'[i].is_verified) =>
               \/ /\ Served("verify_otp")
                  /\ last'.status = "ok" /\ last'.ret.success
                  /\ last'.ret.token = i
               \/ /\ Served("send_otp")
                  /\ last'.arg.order_id = tokens[i].order_id
                  /\ last'.arg.otp_type = tokens[i].otp_type]_vars

\* verify_otp has answered "Invalid OTP" on a token that is still unverified
\* and unexpired, with a token of the other type in the store
C28_Witness ==
    /\ last.op = "verify_otp" /\ last.status = "ok"
    /\ last.ret.message = "Invalid OTP"
    /\ ~tokens[last.ret.token].is_verified
    /\ now <= tokens[last.ret.token].expires_at
    /\ \E i \in 1..Len(tokens) : tokens[i].otp_type # last.arg.otp_type

\* the attempts of the order of attempt i recorded up to and including it
AttemptsUpTo(i) == {j \in 1..i : attempts[j].order_id = attempts[i].order_id}

\* C29: with record_attempt calls served one after the other, the attempts of
\* each order are numbered 1, 2, ..., n in creation order, without gap or
\* duplicate, and each record_attempt answers with the number that follows the
\* order's earlier attempts.
C29_AttemptsNumberedInOrder ==
    /\ \A i \in 1..Len(attempts) :
          attempts[i].attempt_number = Cardinality(AttemptsUpTo(i))
    /\ (last.op = "record_attempt" /\ last.status = "ok") =>
          /\ attempts # <<>>
          /\ last.ret = attempts[Len(attempts)]

\* an attempt on one order, then one on the other, then a second one on the
\* first
C29_Witness ==
    /\ last.op = "record_attempt" /\ last.status = "ok"
    /\ Len(attempts) = 3
    /\ attempts[1].order_id = 1 /\ attempts[2].order_id = 2 /\ attempts[3].order_id = 1
    /\ attempts[3].attempt_number = 2

\* C30 as stated: every order has route_id and driver_id both null or both
\* non-null.
C30_RouteAndDriverTogether ==
    \A o \in OrderIds : (orders[o].route_id = Null) <=> (orders[o].driver_id = Null)

\* C30 amended: an order with a driver has a route; an order may have a route
\* and no driver, which is the case from the time a route without a driver
\* takes it until assign_route.
C30_DriverOnlyWithRoute ==
    \A o \in OrderIds : orders[o].driver_id # Null => orders[o].route_id # Null

\* an order placed by auto_plan_routes on a planned route, with no driver
C30_Witness ==
    /\ last.op = "auto_plan_routes" /\ last.status = "ok"
    /\ \E o \in OrderIds :
          /\ orders[o].route_id \in last.ret.routes
          /\ orders[o].driver_id = Null
          /\ routes[orders[o].route_id].driver_id = Null

\* C31: the summary returned by upload_csv carries the first min(failed, 20)
\* error entries in row order, while the error_log stored on the import batch
\* carries all of them, one per failed row.
C31_PreviewCappedLogFull ==
    (last.op = "upload_csv" /\ last.status = "ok") =>
        LET file == last.arg
            b == imports[last.ret.import_id]
            log == IF b.failed = 0 THEN <<>> ELSE b.error_log
            shown == IF b.failed < 20 THEN b.failed ELSE 20
        IN  /\ b.failed = last.ret.failed
            /\ Len(log) = b.failed
            /\ {log[k].row : k \in 1..Len(log)}
                  = {i \in 1..Len(file.rows) : RowInvalid(file.header, file.rows[i])}
            /\ \A j, k \in 1..Len(log) : j < k => log[j].row < log[k].row
            /\ Len(last.ret.errors) = shown
            /\ \A k \in 1..shown : last.ret.errors[k] = log[k]

\* an upload with more than 20 failed rows and some imported ones
C31_Witness ==
    /\ last.op = "upload_csv" /\ last.status = "ok"
    /\ last.ret.failed > 20
    /\ last.ret.processed > 0
    /\ Len(last.ret.errors) = 20
    /\ Len(imports[last.ret.import_id].error_log) = last.ret.failed

\* C32: return_to_hub changes an order to returned_to_hub only when its status
\* is failed; on an order in any other status it changes neither the status
\* nor returned_at.
C32_ReturnOnlyFromFailed ==
    [][(Served("return_to_hub") /\ last'.arg.order_id \in OrderIds
          /\ orders[last'.arg.order_id].status # "failed") =>
             /\ orders'[last'.arg.order_id].status = orders[last'.arg.order_id].status
             /\ orders'[last'.arg.order_id].returned_at
                   = orders[last'.arg.order_id].returned_at]_vars

\* the stops of route r
StopsOf(r) == {s \in StopIds : stops[s].route_id = r}

\* C33: the stops of every route carry the sequence numbers 1..N, each once,
\* with N the route's total_stops, and no order has two stops on one route.
C33_StopsNumberedOnePerOrder ==
    \A r \in RouteIds :
        /\ Cardinality(StopsOf(r)) = routes[r].total_stops
        /\ {stops[s].sequence : s \in StopsOf(r)} = 1..routes[r].total_stops
        /\ \A s, t \in StopsOf(r) : stops[s].order_id = stops[t].order_id => s = t

\* C34: every route whose status is in_progress has a driver_id and a
\* vehicle_id.
C34_InProgressHasDriverAndVehicle ==
    \A r \in RouteIds :
        routes[r].status = "in_progress" =>
            routes[r].driver_id # Null /\ routes[r].vehicle_id # Null

\* the status the cascade in progress writes on the route and on its orders
CascadeRouteStatus(me) == IF me.op = "assign_route" THEN "assigned" ELSE "in_progress"

CascadeOrderStatus(me) == IF me.op = "assign_route" THEN "assigned" ELSE "out_for_delivery"

C36_NoEmptyRouteOnePerVehicle ==
    [][(Served("auto_plan_routes") /\ last'.status = "ok") =>
          LET new == last'.ret.routes
              elig == EligibleVehicles(last'.arg.hub_id, last'.arg.vehicle_ids)
              pool == PendingPool(last'.arg.hub_id, last'.arg.route_date)
          IN  /\ last'.ret.routes_created = Cardinality(new)
              /\ Cardinality(new) <= Cardinality(elig)
              /\ \A r \in new :
                    /\ r \in DOMAIN routes' /\ r \notin RouteIds
                    /\ routes'[r].vehicle_id \in elig
                    /\ routes'[r].total_stops >= 1
                    /\ routes'[r].total_stops =
                          Cardinality({s \in DOMAIN stops' : stops'[s].route_id = r})
                    /\ \A q \in new : routes'[q].vehicle_id = routes'[r].vehicle_id => q = r
              /\ \A v \in elig :
                    (\A o \in pool : WeightOf(o) > CapacityOf(v)) =>
                       ~ \E r \in new : routes'[r].vehicle_id = v]_vars

\* a run has created a route for one vehicle and none for an eligible vehicle
\* that is too small for every order of the pool
C36_Witness ==
    /\ last.op = "auto_plan_routes" /\ last.status = "ok"
    /\ last.ret.routes_created = 1
    /\ \E v \in EligibleVehicles(last.arg.hub_id, last.arg.vehicle_ids) :
          /\ \A r \in last.ret.routes : routes[r].vehicle_id # v
          /\ \A o \in OrderIds :
                (orders[o].hub_id = last.arg.hub_id /\ orders[o].status = "pending") =>
                   WeightOf(o) > CapacityOf(v)

\* the stops of order o
StopsFor(o) == {s \in StopIds : stops[s].order_id = o}

\* C37: runs of auto_plan_routes that follow one another never place an order
\* twice: a run places only orders of its hub and date that were pending without
\* a route when it started, each on one new stop, and an order that already has
\* a route keeps that route and gets no further stop; so every order has at most
\* one stop, on the route its route_id names.
C37_PlannedOnce ==
    /\ [](\A o \in OrderIds :
             /\ Cardinality(StopsFor(o)) <= 1
             /\ \A s \in StopsFor(o) : stops[s].route_id = orders[o].route_id)
    /\ [][(Served("auto_plan_routes") /\ last'.status = "ok") =>
             \A o \in OrderIds :
                LET added == {s \in DOMAIN stops' : s \notin StopIds /\ stops'[s].order_id = o}
                IN  /\ orders[o].route_id # Null =>
                          orders'[o].route_id = orders[o].route_id /\ added = {}
                    /\ (orders'[o].route_id # orders[o].route_id \/ added # {}) =>
                          /\ o \in PendingPool(last'.arg.hub_id, last'.arg.route_date)
                          /\ orders'[o].route_id \in last'.ret.routes
                          /\ Cardinality(added) = 1]_vars

\* a second run has placed an order while an order placed by an earlier run is
\* still pending on its route
C37_Witness ==
    /\ last.op = "auto_plan_routes" /\ last.status = "ok"
    /\ last.ret.routes_created >= 1
    /\ \E o, q \in OrderIds :
          /\ orders[o].route_id \in last.ret.routes
          /\ orders[q].route_id \in RouteIds \ last.ret.routes
          /\ orders[q].status = "pending"
          /\ orders[q].hub_id = last.arg.hub_id

\* token i belongs to another order, or to the other type of the same order,
\* than the request that was just served
OtherPair(tok, arg) == tok.order_id # arg.order_id \/ tok.otp_type # arg.otp_type

C39_DeliveredNeverCancelled ==
    [][\A o \in OrderIds :
          orders[o].status = "delivered" => orders'[o].status # "cancelled"]_vars

\* C40: in every interleaving of two record_attempt calls for the same order,
\* the two inserted attempts carry different attempt_number values.
C40_AttemptNumbersUnique ==
    \A i, j \in 1..Len(attempts) :
       (i # j /\ attempts[i].order_id = attempts[j].order_id) =>
          attempts[i].attempt_number # attempts[j].attempt_number
=============================================================================
